---- MODULE Spec2Model ----
(***************************************************************************)
(* Filter / re-aggregation engine of the rural-credit dashboard.           *)
(*                                                                         *)
(* hooks/useData.js : filterByPeriod, aggregateByKey, useFilteredData,     *)
(*                    useAggregations                                      *)
(* App.jsx          : filters, interactiveFilters, combinedFilters and the *)
(*                    click / remove / clear handlers                      *)
(*                                                                         *)
(* JavaScript values are represented as follows.  A missing selection      *)
(* (null) is the falsy value of its type: "" for a categorical selection,  *)
(* 0 for a year or a month; the code only ever tests selections for        *)
(* truthiness.  A record is a TLA+ record; a field the record does not     *)
(* carry (undefined) is a field outside its DOMAIN.  Measures are          *)
(* integers.                                                               *)
(***************************************************************************)
EXTENDS Integers, Sequences, FiniteSets, TLC

VARIABLES
  data,                \* Dataset handed to the engine (useData's `data`)
  filters,             \* App.jsx `filters` (dropdown state)
  interactiveFilters,  \* App.jsx `interactiveFilters` (chart clicks)
  filteredData,        \* memoised result of useFilteredData
  aggregations,        \* memoised result of useAggregations
  trail,               \* history: the last set / clear of one selection
  pc,                  \* useData: position of loadData
  pending,             \* useData: the parsed aggregated.json awaiting setData
  loading,             \* useData `loading`
  error,               \* useData `error`
  now                  \* the calendar year new Date().getFullYear() returns

vars == <<data, filters, interactiveFilters, filteredData, aggregations, trail,
          pc, pending, loading, error, now>>

-----------------------------------------------------------------------------
(* Generic helpers *)

nullStr == ""
nullNum == 0

Has(item, f) == f \in DOMAIN item

\* item.f || 0
Num(item, f) == IF Has(item, f) THEN item[f] ELSE 0

\* item.f as a categorical value; "undefined" is never equal to a selection
Str(item, f) == IF Has(item, f) THEN item[f] ELSE "undefined"

Min2(a, b) == IF a <= b THEN a ELSE b

RECURSIVE SumField(_, _)
SumField(items, f) ==
  IF items = <<>> THEN 0
  ELSE Num(Head(items), f) + SumField(Tail(items), f)

\* Array.prototype.slice(0, n)
Slice0(items, n) == SubSeq(items, 1, Min2(n, Len(items)))

\* the value `undefined` where a collection is expected
undefined == << [undefined |-> TRUE] >>

\* the TypeError thrown by a method call on undefined; it ends the hook
TypeError == << [raised |-> TRUE] >>

\* data.name: undefined when the dataset does not carry the collection
Collection(d, name) == IF Has(d, name) THEN d[name] ELSE undefined

\* items.filter(Test), kept being the elements of items that pass Test:
\* throws when items is undefined
filter(items, kept) ==
  IF items = undefined \/ items = TypeError THEN TypeError ELSE kept

\* Array.prototype.sort with comparator (a, b) => b.valor - a.valor: a stable
\* sort by non-increasing valor.  An element is preceded by the elements of
\* larger valor and by the earlier elements of equal valor.
SortByValorDesc(items) ==
  LET n == Len(items)
      Precedes(j, i) == \/ items[j].valor > items[i].valor
                        \/ items[j].valor = items[i].valor /\ j < i
      place == [i \in 1..n |-> 1 + Cardinality({j \in 1..n : Precedes(j, i)})]
  IN  [p \in 1..n |-> items[CHOOSE i \in 1..n : place[i] = p]]

-----------------------------------------------------------------------------
(* filterByPeriod (hooks/useData.js) *)

\* variant: the month bounds are applied to every year, not only to the
\* first and last year of the window
KeepInPeriodMonthAnyYear(item, anoMin, anoMax, mesMin, mesMax) ==
  LET hasAno == Has(item, "ano")
      mes    == IF Has(item, "mes") /\ item.mes # 0 THEN item.mes ELSE 1
  IN  /\ ~(anoMin # 0 /\ hasAno /\ item.ano < anoMin)
      /\ ~(anoMax # 0 /\ hasAno /\ item.ano > anoMax)
      /\ ~(anoMin # 0 /\ mesMin # 0 /\ mes < mesMin)
      /\ ~(anoMax # 0 /\ mesMax # 0 /\ mes > mesMax)

\* One record against the window; a bound of 0 (null) excludes nothing, a
\* record without mes counts as month 1, a record without ano fails every
\* comparison and is kept.
KeepInPeriod(item, anoMin, anoMax, mesMin, mesMax) ==
  LET hasAno == Has(item, "ano")
      mes    == IF Has(item, "mes") /\ item.mes # 0 THEN item.mes ELSE 1
  IN  /\ ~(anoMin # 0 /\ hasAno /\ item.ano < anoMin)
      /\ ~(anoMax # 0 /\ hasAno /\ item.ano > anoMax)
      /\ ~(anoMin # 0 /\ hasAno /\ item.ano = anoMin /\ mesMin # 0 /\ mes < mesMin)
      /\ ~(anoMax # 0 /\ hasAno /\ item.ano = anoMax /\ mesMax # 0 /\ mes > mesMax)

\* a missing collection is handed back as it is (`return items`)
filterByPeriod(items, anoMin, anoMax, mesMin, mesMax) ==
  LET Test(item) == KeepInPeriod(item, anoMin, anoMax, mesMin, mesMax)
  IN  IF items = undefined THEN items ELSE SelectSeq(items, Test)

-----------------------------------------------------------------------------
(* aggregateByKey (hooks/useData.js) *)

\* Property keys that are canonical array indices: Object.values lists them
\* first, in ascending numeric order, before the other keys.
IndexKeyValue == ("7" :> 7) @@ ("12" :> 12) @@ ("2020" :> 2020)

IsIndexKey(k) == k \in DOMAIN IndexKeyValue

\* grouped's property name for a record: item[key] coerced to a string
GroupKey(item, key) == Str(item, key)

\* property names of `grouped` in insertion order: the key of every record
\* that is the first of its group
InsertionKeys(items, key) ==
  LET First(i) == \A j \in 1..(i - 1) : GroupKey(items[j], key) # GroupKey(items[i], key)
      firsts   == SelectSeq([i \in 1..Len(items) |-> i], First)
  IN  [p \in 1..Len(firsts) |-> GroupKey(items[firsts[p]], key)]

\* ascending numeric order of the index-like keys
RECURSIVE InsertIndexKey(_, _)
InsertIndexKey(sorted, k) ==
  IF sorted = <<>> THEN <<k>>
  ELSE IF IndexKeyValue[Head(sorted)] < IndexKeyValue[k]
       THEN <<Head(sorted)>> \o InsertIndexKey(Tail(sorted), k)
       ELSE <<k>> \o sorted

RECURSIVE SortIndexKeys(_)
SortIndexKeys(keys) ==
  IF keys = <<>> THEN <<>>
  ELSE InsertIndexKey(SortIndexKeys(Tail(keys)), Head(keys))

\* Object.values(grouped) enumeration order
ObjectKeyOrder(keys) ==
  LET IsIdx(k) == IsIndexKey(k)
      NotIdx(k) == ~IsIndexKey(k)
  IN  SortIndexKeys(SelectSeq(keys, IsIdx)) \o SelectSeq(keys, NotIdx)

\* variant: the measures are assigned (=) rather than accumulated (+=), so a
\* group carries the measures of its last record only
GroupRowLastOnly(items, key, k) ==
  LET InGroup(item) == GroupKey(item, key) = k
      members == SelectSeq(items, InGroup)
      first   == Head(members)
      last    == members[Len(members)]
      keyPart == IF Has(first, key) THEN (key :> first[key]) ELSE <<>>
      codPart == IF Has(first, "codIbge") /\ first.codIbge # 0
                 THEN [codIbge |-> first.codIbge] ELSE <<>>
  IN  keyPart @@ codPart @@
      [valor     |-> Num(last, "valor"),
       contratos |-> Num(last, "contratos"),
       area      |-> Num(last, "area")]

\* grouped[k] after the forEach: the key and codIbge of the first record of
\* the group, the measures summed over the group
GroupRow(items, key, k) ==
  LET InGroup(item) == GroupKey(item, key) = k
      members == SelectSeq(items, InGroup)
      first   == Head(members)
      keyPart == IF Has(first, key) THEN (key :> first[key]) ELSE <<>>
      codPart == IF Has(first, "codIbge") /\ first.codIbge # 0
                 THEN [codIbge |-> first.codIbge] ELSE <<>>
  IN  keyPart @@ codPart @@
      [valor     |-> SumField(members, "valor"),
       contratos |-> SumField(members, "contratos"),
       area      |-> SumField(members, "area")]

\* variant: the rank is the zero-based index (item.rank = i)
WithRankFromZero(rows) == [i \in 1..Len(rows) |-> [rank |-> i - 1] @@ rows[i]]

WithRank(rows) == [i \in 1..Len(rows) |-> [rank |-> i] @@ rows[i]]

aggregateByKey(items, key, includeRank) ==
  IF items = undefined \/ items = <<>> THEN <<>>
  ELSE LET keys   == ObjectKeyOrder(InsertionKeys(items, key))
           values == [i \in 1..Len(keys) |-> GroupRow(items, key, keys[i])]
           result == SortByValorDesc(values)
       IN  IF includeRank THEN WithRank(result) ELSE result

-----------------------------------------------------------------------------
(* useFilteredData (hooks/useData.js) *)

\* rows of the produto roll-up kept by .slice(0, 50)
TopProdutos == 50

\* rows per year kept by the leaderboard's .slice(0, 20)
TopBump == 20

\* d.f === selection
FieldIs(d, f, selection) == Has(d, f) /\ d[f] = selection

\* !d.f || d.f === selection
FieldAbsentOrIs(d, f, selection) ==
  ~Has(d, f) \/ d[f] = nullStr \/ d[f] = selection

\* variant: the single-year override does not replace the lower bound
effectiveAnoMinIgnoresAno(f) == f.anoMin

effectiveAnoMin(f) == IF f.ano # nullNum THEN f.ano ELSE f.anoMin
\* variant: the single-year override does not replace the upper bound
effectiveAnoMaxIgnoresAno(f) == f.anoMax

effectiveAnoMax(f) == IF f.ano # nullNum THEN f.ano ELSE f.anoMax

\* variant: the finalidade predicate is applied without testing that a
\* finalidade is selected
filteredFinalidadeUnguarded(d, f) ==
  LET p0 == filterByPeriod(Collection(d, "byFinalidade"), effectiveAnoMin(f), effectiveAnoMax(f),
                           f.mesMin, f.mesMax)
      ByFin(r)  == FieldIs(r, "finalidade", f.finalidade)
      ByProg(r) == FieldIs(r, "programa", f.programa)
      ByProd(r) == FieldAbsentOrIs(r, "produto", f.produto)
      p1 == filter(p0, SelectSeq(p0, ByFin))
      p2 == IF f.programa # nullStr THEN filter(p1, SelectSeq(p1, ByProg)) ELSE p1
  IN  IF f.produto # nullStr THEN filter(p2, SelectSeq(p2, ByProd)) ELSE p2

\* variant: the municipio selection is also applied to the by-finalidade
\* records
filteredFinalidadeByMunicipio(d, f) ==
  LET p0 == filterByPeriod(Collection(d, "byFinalidade"), effectiveAnoMin(f), effectiveAnoMax(f),
                           f.mesMin, f.mesMax)
      ByFin(r)  == FieldIs(r, "finalidade", f.finalidade)
      ByProg(r) == FieldIs(r, "programa", f.programa)
      ByProd(r) == FieldAbsentOrIs(r, "produto", f.produto)
      ByMun(r)  == FieldIs(r, "name", f.municipio) \/ FieldIs(r, "municipio", f.municipio)
      p1 == IF f.finalidade # nullStr THEN filter(p0, SelectSeq(p0, ByFin)) ELSE p0
      p2 == IF f.programa # nullStr THEN filter(p1, SelectSeq(p1, ByProg)) ELSE p1
      p3 == IF f.produto # nullStr THEN filter(p2, SelectSeq(p2, ByProd)) ELSE p2
  IN  IF f.municipio # nullStr THEN filter(p3, SelectSeq(p3, ByMun)) ELSE p3

\* the dimension filters on the by-finalidade collection
filteredFinalidade(d, f) ==
  LET p0 == filterByPeriod(Collection(d, "byFinalidade"), effectiveAnoMin(f), effectiveAnoMax(f),
                           f.mesMin, f.mesMax)
      ByFin(r)  == FieldIs(r, "finalidade", f.finalidade)
      ByProg(r) == FieldIs(r, "programa", f.programa)
      ByProd(r) == FieldAbsentOrIs(r, "produto", f.produto)
      p1 == IF f.finalidade # nullStr THEN filter(p0, SelectSeq(p0, ByFin)) ELSE p0
      p2 == IF f.programa # nullStr THEN filter(p1, SelectSeq(p1, ByProg)) ELSE p1
  IN  IF f.produto # nullStr THEN filter(p2, SelectSeq(p2, ByProd)) ELSE p2

\* the dimension filters on the by-programa collection
filteredPrograma(d, f) ==
  LET p0 == filterByPeriod(Collection(d, "byPrograma"), effectiveAnoMin(f), effectiveAnoMax(f),
                           f.mesMin, f.mesMax)
      ByFin(r)  == FieldIs(r, "finalidade", f.finalidade)
      ByProg(r) == FieldIs(r, "programa", f.programa)
      ByProd(r) == FieldAbsentOrIs(r, "produto", f.produto)
      p1 == IF f.finalidade # nullStr THEN filter(p0, SelectSeq(p0, ByFin)) ELSE p0
      p2 == IF f.programa # nullStr THEN filter(p1, SelectSeq(p1, ByProg)) ELSE p1
  IN  IF f.produto # nullStr THEN filter(p2, SelectSeq(p2, ByProd)) ELSE p2

\* variant: the programa selection is also applied to the by-produto records
filteredProdutoByPrograma(d, f) ==
  LET p0 == filterByPeriod(Collection(d, "byProduto"), effectiveAnoMin(f), effectiveAnoMax(f),
                           f.mesMin, f.mesMax)
      ByFin(r)  == FieldIs(r, "finalidade", f.finalidade)
      ByProg(r) == FieldIs(r, "programa", f.programa)
      ByProd(r) == FieldIs(r, "produto", f.produto)
      p1 == IF f.finalidade # nullStr THEN filter(p0, SelectSeq(p0, ByFin)) ELSE p0
      p2 == IF f.programa # nullStr THEN filter(p1, SelectSeq(p1, ByProg)) ELSE p1
  IN  IF f.produto # nullStr THEN filter(p2, SelectSeq(p2, ByProd)) ELSE p2

\* the dimension filters on the by-produto collection (no programa filter)
filteredProduto(d, f) ==
  LET p0 == filterByPeriod(Collection(d, "byProduto"), effectiveAnoMin(f), effectiveAnoMax(f),
                           f.mesMin, f.mesMax)
      ByFin(r)  == FieldIs(r, "finalidade", f.finalidade)
      ByProd(r) == FieldIs(r, "produto", f.produto)
      p1 == IF f.finalidade # nullStr THEN filter(p0, SelectSeq(p0, ByFin)) ELSE p0
  IN  IF f.produto # nullStr THEN filter(p1, SelectSeq(p1, ByProd)) ELSE p1

\* the dimension filters on the by-municipio collection
filteredMunicipio(d, f) ==
  LET p0 == filterByPeriod(Collection(d, "byMunicipio"), effectiveAnoMin(f), effectiveAnoMax(f),
                           f.mesMin, f.mesMax)
      ByProg(r) == FieldIs(r, "programa", f.programa)
      ByMun(r)  == FieldIs(r, "name", f.municipio) \/ FieldIs(r, "municipio", f.municipio)
      p1 == IF f.programa # nullStr THEN filter(p0, SelectSeq(p0, ByProg)) ELSE p0
  IN  IF f.municipio # nullStr THEN filter(p1, SelectSeq(p1, ByMun)) ELSE p1

\* byAno is filtered by year only (no month bounds are passed)
filteredAno(d, f) ==
  filterByPeriod(Collection(d, "byAno"), effectiveAnoMin(f), effectiveAnoMax(f), nullNum, nullNum)

filteredMes(d, f) ==
  filterByPeriod(Collection(d, "byMes"), effectiveAnoMin(f), effectiveAnoMax(f), f.mesMin, f.mesMax)

timeSeriesData(d, f) ==
  LET base == IF f.granularidade = "mensal" THEN filteredMes(d, f) ELSE filteredAno(d, f)
      ByFin(r) == FieldAbsentOrIs(r, "finalidade", f.finalidade)
  IN  IF f.finalidade # nullStr THEN filter(base, SelectSeq(base, ByFin)) ELSE base

\* ---- leaderboard (bump) ----

\* `${d.ano}_${d.id}`: the (year, entity) pair that keys bumpByYearMunicipio
BumpKey(d) == <<Num(d, "ano"), Str(d, "id")>>

\* keys of bumpByYearMunicipio in insertion order: the key of every row that
\* is the first of its (year, entity) pair
BumpKeys(rows) ==
  LET First(i) == \A j \in 1..(i - 1) : BumpKey(rows[j]) # BumpKey(rows[i])
      firsts   == SelectSeq([i \in 1..Len(rows) |-> i], First)
  IN  [p \in 1..Len(firsts) |-> BumpKey(rows[firsts[p]])]

\* bumpByYearMunicipio[key]: { id, ano, valor } summed over the programas
BumpEntry(rows, k) ==
  LET InGroup(d) == BumpKey(d) = k
      members == SelectSeq(rows, InGroup)
  IN  [id |-> Head(members).id, ano |-> Head(members).ano,
       valor |-> SumField(members, "valor")]

\* ascending order of a set of years: the enumeration order of byYear, whose
\* property names are integers
RECURSIVE AscendingYears(_)
AscendingYears(S) ==
  IF S = {} THEN <<>>
  ELSE LET m == CHOOSE y \in S : \A z \in S : y <= z
       IN  <<m>> \o AscendingYears(S \ {m})

\* variant: the entries of a year are ranked in insertion order, unsorted
RankYearUnsorted(entries, ano) ==
  LET InYear(e) == e.ano = ano
      top == Slice0(SelectSeq(entries, InYear), TopBump)
  IN  [i \in 1..Len(top) |-> [rank |-> i] @@ top[i]]

\* variant: the year is truncated before it is sorted
RankYearSliceFirst(entries, ano) ==
  LET InYear(e) == e.ano = ano
      top == SortByValorDesc(Slice0(SelectSeq(entries, InYear), TopBump))
  IN  [i \in 1..Len(top) |-> [rank |-> i] @@ top[i]]

\* one year of byYear: sort, slice(0, 20), rank = index + 1
RankYear(entries, ano) ==
  LET InYear(e) == e.ano = ano
      items == SortByValorDesc(SelectSeq(entries, InYear))
      top   == Slice0(items, TopBump)
  IN  [i \in 1..Len(top) |-> [rank |-> i] @@ top[i]]

RECURSIVE ConcatYears(_, _)
ConcatYears(entries, years) ==
  IF years = <<>> THEN <<>>
  ELSE RankYear(entries, Head(years)) \o ConcatYears(entries, Tail(years))

\* the else branch: aggregate across programas and recalculate rankings
recomputeBump(rows) ==
  LET keys    == BumpKeys(rows)
      entries == [i \in 1..Len(keys) |-> BumpEntry(rows, keys[i])]
      years   == AscendingYears({entries[i].ano : i \in 1..Len(entries)})
  IN  ConcatYears(entries, years)

\* variant: the programa selection is not applied to the leaderboard rows
filteredBumpIgnoresPrograma(d, f) ==
  LET InRange(r) == /\ ~(effectiveAnoMin(f) # 0 /\ r.ano < effectiveAnoMin(f))
                    /\ ~(effectiveAnoMax(f) # 0 /\ r.ano > effectiveAnoMax(f))
      b0 == IF Has(d, "bump") THEN SelectSeq(d.bump, InRange) ELSE <<>>
      b1 == IF f.programa # nullStr THEN b0 ELSE recomputeBump(b0)
      ByMun(r) == \/ FieldIs(r, "name", f.municipio)
                  \/ FieldIs(r, "municipio", f.municipio)
                  \/ FieldIs(r, "id", f.municipio)
  IN  IF f.municipio # nullStr THEN SelectSeq(b1, ByMun) ELSE b1

filteredBump(d, f) ==
  LET InRange(r) == /\ ~(effectiveAnoMin(f) # 0 /\ r.ano < effectiveAnoMin(f))
                    /\ ~(effectiveAnoMax(f) # 0 /\ r.ano > effectiveAnoMax(f))
      b0 == IF Has(d, "bump") THEN SelectSeq(d.bump, InRange) ELSE <<>>
      ByProg(r) == FieldIs(r, "programa", f.programa)
      b1 == IF f.programa # nullStr THEN SelectSeq(b0, ByProg) ELSE recomputeBump(b0)
      ByMun(r) == \/ FieldIs(r, "name", f.municipio)
                  \/ FieldIs(r, "municipio", f.municipio)
                  \/ FieldIs(r, "id", f.municipio)
  IN  IF f.municipio # nullStr THEN SelectSeq(b1, ByMun) ELSE b1

\* ---- gender totals ----

\* filteredGenero?.byAnoMes, with the empty list standing for a series that
\* does not exist (data.byGenero or its byAnoMes is missing): both have no
\* positive length
filteredGenero(d, f) ==
  IF Has(d, "byGenero") /\ Has(d.byGenero, "byAnoMes")
  THEN filterByPeriod(d.byGenero.byAnoMes, effectiveAnoMin(f), effectiveAnoMax(f),
                      f.mesMin, f.mesMax)
  ELSE <<>>

\* generoTotals is defined: the series is non-empty or data.byGenero.totals
\* exists
HasGeneroTotals(d, f) ==
  \/ Len(filteredGenero(d, f)) > 0
  \/ Has(d, "byGenero") /\ Has(d.byGenero, "totals")

\* the totals are reaggregated only when the filtered series is non-empty;
\* otherwise the dataset's own totals are passed on
generoTotals(d, f) ==
  LET rows == filteredGenero(d, f)
      IsMasc(r) == r.genero = "masculino"
      IsFem(r)  == r.genero = "feminino"
  IN  IF Len(rows) > 0
      THEN [masculino |-> SumField(SelectSeq(rows, IsMasc), "valor"),
            feminino  |-> SumField(SelectSeq(rows, IsFem), "valor")]
      ELSE d.byGenero.totals

\* ---- flow graph (sankey) ----

\* String.prototype.startsWith
startsWith(s, prefix) ==
  Len(s) >= Len(prefix) /\ SubSeq(s, 1, Len(prefix)) = prefix

\* node type from the id prefix
getNodeType(nodeId) ==
  IF nodeId = nullStr THEN "null"
  ELSE IF startsWith(nodeId, "prog_") THEN "programa"
  ELSE IF startsWith(nodeId, "fin_") THEN "finalidade"
  ELSE IF startsWith(nodeId, "prod_") THEN "produto"
  ELSE "null"

\* nodeById[id] is defined
HasNode(nodes, id) == \E i \in 1..Len(nodes) : nodes[i].id = id

\* nodeById[id]: the last node carrying the id
NodeById(nodes, id) ==
  nodes[CHOOSE i \in 1..Len(nodes) :
          /\ nodes[i].id = id
          /\ \A j \in 1..Len(nodes) : nodes[j].id = id => j <= i]

\* variant: the first pass does not compare the source's label with the
\* selected programa
allowedFinalidadesAnyPrograma(nodes, links, programa) ==
  IF programa = nullStr THEN {}
  ELSE { links[i].target : i \in
           { j \in 1..Len(links) :
               /\ HasNode(nodes, links[j].source)
               /\ getNodeType(links[j].target) = "finalidade" } }

\* first pass: the finalidade ids fed by the selected programa
allowedFinalidades(nodes, links, programa) ==
  IF programa = nullStr THEN {}
  ELSE { links[i].target : i \in
           { j \in 1..Len(links) :
               /\ HasNode(nodes, links[j].source)
               /\ NodeById(nodes, links[j].source).label = programa
               /\ getNodeType(links[j].target) = "finalidade" } }

\* variant: the value guard reads link.value < 0, so zero-value edges pass
KeepLinkZeroPasses(nodes, links, link, f) ==
  LET sourceType == getNodeType(link.source)
      targetType == getNodeType(link.target)
  IN  /\ ~(link.value < 0)
      /\ HasNode(nodes, link.source) /\ HasNode(nodes, link.target)
      /\ LET sourceNode == NodeById(nodes, link.source)
             targetNode == NodeById(nodes, link.target)
         IN  /\ f.programa # nullStr =>
                  /\ ~(sourceType = "programa" /\ sourceNode.label # f.programa)
                  /\ ~(/\ sourceType = "finalidade" /\ targetType = "produto"
                       /\ link.source \notin allowedFinalidades(nodes, links, f.programa))
             /\ f.finalidade # nullStr =>
                  /\ ~(sourceType = "finalidade" /\ sourceNode.label # f.finalidade)
                  /\ ~(targetType = "finalidade" /\ targetNode.label # f.finalidade)
             /\ f.produto # nullStr =>
                  ~(targetType = "produto" /\ targetNode.label # f.produto)

\* variant: the produto selection is compared with the target of every
\* edge, whatever its layer
KeepLinkProdutoAnyTarget(nodes, links, link, f) ==
  LET sourceType == getNodeType(link.source)
      targetType == getNodeType(link.target)
  IN  /\ ~(link.value <= 0)
      /\ HasNode(nodes, link.source) /\ HasNode(nodes, link.target)
      /\ LET sourceNode == NodeById(nodes, link.source)
             targetNode == NodeById(nodes, link.target)
         IN  /\ f.programa # nullStr =>
                  /\ ~(sourceType = "programa" /\ sourceNode.label # f.programa)
                  /\ ~(/\ sourceType = "finalidade" /\ targetType = "produto"
                       /\ link.source \notin allowedFinalidades(nodes, links, f.programa))
             /\ f.finalidade # nullStr =>
                  /\ ~(sourceType = "finalidade" /\ sourceNode.label # f.finalidade)
                  /\ ~(targetType = "finalidade" /\ targetNode.label # f.finalidade)
             /\ f.produto # nullStr => ~(targetNode.label # f.produto)

\* the predicate of links.filter
KeepLink(nodes, links, link, f) ==
  LET sourceType == getNodeType(link.source)
      targetType == getNodeType(link.target)
  IN  /\ ~(link.value <= 0)
      /\ HasNode(nodes, link.source) /\ HasNode(nodes, link.target)
      /\ LET sourceNode == NodeById(nodes, link.source)
             targetNode == NodeById(nodes, link.target)
         IN  /\ f.programa # nullStr =>
                  /\ ~(sourceType = "programa" /\ sourceNode.label # f.programa)
                  /\ ~(/\ sourceType = "finalidade" /\ targetType = "produto"
                       /\ link.source \notin allowedFinalidades(nodes, links, f.programa))
             /\ f.finalidade # nullStr =>
                  /\ ~(sourceType = "finalidade" /\ sourceNode.label # f.finalidade)
                  /\ ~(targetType = "finalidade" /\ targetNode.label # f.finalidade)
             /\ f.produto # nullStr =>
                  ~(targetType = "produto" /\ targetNode.label # f.produto)

filteredLinks(nodes, links, f) ==
  LET Test(link) == KeepLink(nodes, links, link, f)
  IN  SelectSeq(links, Test)

\* variant: only the sources of the kept edges are collected
usedNodesSourcesOnly(nodes, kept) ==
  LET nodeSet == {kept[i].source : i \in 1..Len(kept)}
      Used(n) == n.id \in nodeSet
  IN  SelectSeq(nodes, Used)

\* variant: the nodes are not filtered; orphans stay
usedNodesKeepsOrphans(nodes, kept) == nodes

usedNodes(nodes, kept) ==
  LET nodeSet == {kept[i].source : i \in 1..Len(kept)} \cup
                 {kept[i].target : i \in 1..Len(kept)}
      Used(n) == n.id \in nodeSet
  IN  SelectSeq(nodes, Used)

\* variant: the pruned graph is returned even when no edge survives
sankeyDataNoFallback(d, f) ==
  IF f.programa # nullStr \/ f.finalidade # nullStr \/ f.produto # nullStr
  THEN LET nodes == IF Has(d.sankey, "nodes") THEN d.sankey.nodes ELSE <<>>
           links == IF Has(d.sankey, "links") THEN d.sankey.links ELSE <<>>
           kept  == filteredLinks(nodes, links, f)
       IN  [nodes |-> usedNodes(nodes, kept), links |-> kept]
  ELSE d.sankey

sankeyData(d, f) ==
  IF f.programa # nullStr \/ f.finalidade # nullStr \/ f.produto # nullStr
  THEN LET nodes == IF Has(d.sankey, "nodes") THEN d.sankey.nodes ELSE <<>>
           links == IF Has(d.sankey, "links") THEN d.sankey.links ELSE <<>>
           kept  == filteredLinks(nodes, links, f)
       IN  IF Len(kept) > 0
           THEN [nodes |-> usedNodes(nodes, kept), links |-> kept]
           ELSE d.sankey
  ELSE d.sankey

\* ---- the hook's result ----

\* the hook's return value when a TypeError ended it
Thrown == [ready |-> FALSE, raised |-> TRUE]

\* a property of the result: left out when its value is undefined
Property(name, value) == IF value = undefined THEN <<>> ELSE (name :> value)

useFilteredData(d, f) ==
  LET fin  == filteredFinalidade(d, f)
      prog == filteredPrograma(d, f)
      prod == filteredProduto(d, f)
      mun  == filteredMunicipio(d, f)
      ts   == timeSeriesData(d, f)
  IN  IF \/ fin = TypeError \/ prog = TypeError \/ prod = TypeError
         \/ mun = TypeError \/ ts = TypeError
      THEN Thrown
      ELSE Property("byFinalidade", fin) @@ Property("byPrograma", prog) @@
           Property("byProduto", prod) @@ Property("byMunicipio", mun) @@
           Property("byAno", filteredAno(d, f)) @@ Property("byMes", filteredMes(d, f)) @@
           Property("timeseries", ts) @@
           (IF HasGeneroTotals(d, f) THEN [byGenero |-> generoTotals(d, f)] ELSE <<>>) @@
           (IF Has(d, "sankey") THEN [sankey |-> sankeyData(d, f)] ELSE <<>>) @@
           [ready            |-> TRUE,
            finalidadeTotals |-> aggregateByKey(fin, "finalidade", FALSE),
            programaTotals   |-> aggregateByKey(prog, "programa", FALSE),
            produtoTotals    |-> Slice0(aggregateByKey(prod, "produto", TRUE), TopProdutos),
            municipioTotals  |-> aggregateByKey(mun, "name", TRUE),
            bump             |-> filteredBump(d, f),
            metadata         |-> d.metadata,
            filters          |-> d.filters,
            forecasts        |-> IF Has(d, "forecasts") THEN d.forecasts ELSE [isNull |-> TRUE]]

-----------------------------------------------------------------------------
(* useAggregations (hooks/useData.js) *)

\* byYear[ano].valor over the filtered by-finalidade slice; 0 also stands for
\* a year absent from the slice (both are falsy in the yoyChange test)
YearValor(sourceData, ano) ==
  LET InYear(r) == Has(r, "ano") /\ r.ano = ano
  IN  SumField(SelectSeq(sourceData, InYear), "valor")

\* variant: the change is taken relative to the current year's total
useAggregationsYoyOverCurrent(fd, f, year) ==
  LET sourceData  == IF Has(fd, "byFinalidade") THEN fd.byFinalidade ELSE <<>>
      reduced     == IF sourceData = <<>> THEN <<>>
                     ELSE [valor     |-> SumField(sourceData, "valor"),
                           contratos |-> SumField(sourceData, "contratos"),
                           area      |-> SumField(sourceData, "area")]
      totals      == IF /\ f.programa = nullStr /\ f.finalidade = nullStr
                        /\ Len(fd.municipioTotals) > 0
                     THEN [area |-> SumField(fd.municipioTotals, "area")] @@ reduced
                     ELSE reduced
      currentYear == IF f.anoMax # nullNum THEN f.anoMax ELSE year
      prevYear    == currentYear - 1
      cur         == YearValor(sourceData, currentYear)
      prev        == YearValor(sourceData, prevYear)
  IN  [ready |-> TRUE,
       totals |->
         [valorMedio |-> IF Has(totals, "contratos") /\ totals.contratos > 0
                         THEN [num |-> totals.valor, den |-> totals.contratos]
                         ELSE [num |-> 0, den |-> 1],
          yoyChange  |-> IF cur # 0 /\ prev # 0
                         THEN [null |-> FALSE, num |-> (cur - prev) * 100, den |-> cur]
                         ELSE [null |-> TRUE]] @@ totals]

\* variant: the area is never taken from the municipality roll-up
useAggregationsAreaFromSlice(fd, f, year) ==
  LET sourceData  == IF Has(fd, "byFinalidade") THEN fd.byFinalidade ELSE <<>>
      reduced     == IF sourceData = <<>> THEN <<>>
                     ELSE [valor     |-> SumField(sourceData, "valor"),
                           contratos |-> SumField(sourceData, "contratos"),
                           area      |-> SumField(sourceData, "area")]
      totals      == reduced
      currentYear == IF f.anoMax # nullNum THEN f.anoMax ELSE year
      prevYear    == currentYear - 1
      cur         == YearValor(sourceData, currentYear)
      prev        == YearValor(sourceData, prevYear)
  IN  [ready |-> TRUE,
       totals |->
         [valorMedio |-> IF Has(totals, "contratos") /\ totals.contratos > 0
                         THEN [num |-> totals.valor, den |-> totals.contratos]
                         ELSE [num |-> 0, den |-> 1],
          yoyChange  |-> IF cur # 0 /\ prev # 0
                         THEN [null |-> FALSE, num |-> (cur - prev) * 100, den |-> prev]
                         ELSE [null |-> TRUE]] @@ totals]

\* A quotient is kept exact as numerator / denominator.  The reduce starts
\* from {}: over an empty slice no callback runs and the totals carry no
\* valor, contratos or area.
useAggregations(fd, f, year) ==
  LET sourceData  == IF Has(fd, "byFinalidade") THEN fd.byFinalidade ELSE <<>>
      reduced     == IF sourceData = <<>> THEN <<>>
                     ELSE [valor     |-> SumField(sourceData, "valor"),
                           contratos |-> SumField(sourceData, "contratos"),
                           area      |-> SumField(sourceData, "area")]
      totals      == IF /\ f.programa = nullStr /\ f.finalidade = nullStr
                        /\ Len(fd.municipioTotals) > 0
                     THEN [area |-> SumField(fd.municipioTotals, "area")] @@ reduced
                     ELSE reduced
      currentYear == IF f.anoMax # nullNum THEN f.anoMax ELSE year
      prevYear    == currentYear - 1
      cur         == YearValor(sourceData, currentYear)
      prev        == YearValor(sourceData, prevYear)
  IN  [ready |-> TRUE,
       totals |->
         [valorMedio |-> IF Has(totals, "contratos") /\ totals.contratos > 0
                         THEN [num |-> totals.valor, den |-> totals.contratos]
                         ELSE [num |-> 0, den |-> 1],
          yoyChange  |-> IF cur # 0 /\ prev # 0
                         THEN [null |-> FALSE, num |-> (cur - prev) * 100, den |-> prev]
                         ELSE [null |-> TRUE]] @@ totals]

-----------------------------------------------------------------------------
(* The inputs after an evaluation *)

\* Records are objects: a filter call returns a new array that holds the
\* records of its input, so a write to a record of a filtered array is a
\* write to the dataset.  The position of a record in its collection stands
\* for its identity.
Referenced(items) == [i \in 1..Len(items) |-> [ref |-> i] @@ items[i]]

Dereferenced(r) == [x \in DOMAIN r \ {"ref"} |-> r[x]]

\* the collections handed, filtered, to aggregateByKey
AggregatedCollections == {"byFinalidade", "byPrograma", "byProduto", "byMunicipio"}

WithReferences(d) ==
  [name \in DOMAIN d |->
     IF name \in AggregatedCollections THEN Referenced(d[name]) ELSE d[name]]

\* variant: the group row is the first record of the group (grouped[k] =
\* item), so that record receives the sums and the rank
itemsAfterAggregateAliased(items, key, includeRank) ==
  IF items = undefined \/ items = TypeError \/ items = <<>> THEN items
  ELSE LET rows     == aggregateByKey(items, key, includeRank)
           First(i) == \A j \in 1..(i - 1) :
                         GroupKey(items[j], key) # GroupKey(items[i], key)
           RowOf(i) == rows[CHOOSE p \in 1..Len(rows) :
                              GroupKey(rows[p], key) = GroupKey(items[i], key)]
       IN  [i \in 1..Len(items) |->
              IF First(i) THEN RowOf(i) @@ items[i] ELSE items[i]]

\* the array handed to aggregateByKey, after the call: forEach reads the
\* records; the objects written (valor +=, rank =) are the ones created by
\* the literal { [key]: k, valor: 0, ... } and the array sorted is the one
\* Object.values creates
itemsAfterAggregate(items, key, includeRank) == items

\* a collection of the dataset once the array `after`, which holds some of
\* its records, has been through aggregateByKey
CollectionAfter(d, name, after) ==
  IF after = undefined \/ after = TypeError THEN d[name]
  ELSE [i \in 1..Len(d[name]) |->
          IF \E p \in 1..Len(after) : after[p].ref = i
          THEN Dereferenced(after[CHOOSE p \in 1..Len(after) : after[p].ref = i])
          ELSE d[name][i]]

\* variant: the programa branch ranks the rows it keeps (d.rank = index + 1)
bumpAfterRankedInPlace(d, f) ==
  LET InRange(r) == /\ ~(effectiveAnoMin(f) # 0 /\ r.ano < effectiveAnoMin(f))
                    /\ ~(effectiveAnoMax(f) # 0 /\ r.ano > effectiveAnoMax(f))
      ByProg(r)  == FieldIs(r, "programa", f.programa)
      kept       == SelectSeq(SelectSeq(Referenced(d.bump), InRange), ByProg)
  IN  IF f.programa = nullStr THEN d.bump
      ELSE [i \in 1..Len(d.bump) |->
              IF \E p \in 1..Len(kept) : kept[p].ref = i
              THEN [rank |-> CHOOSE p \in 1..Len(kept) : kept[p].ref = i] @@ d.bump[i]
              ELSE d.bump[i]]

\* data.bump after the evaluation: the programa branch only filters; the
\* recomputation adds valor to the entries it creates, sorts the arrays it
\* creates for byYear and pushes copies ({ ...item, rank }) on a new array
bumpAfter(d, f) == d.bump

\* the dataset after useFilteredData(d, f)
DatasetAfter(d, f) ==
  LET rd == WithReferences(d)
      After(name) ==
        CASE name = "byFinalidade" ->
               CollectionAfter(d, name,
                 itemsAfterAggregate(filteredFinalidade(rd, f), "finalidade", FALSE))
          [] name = "byPrograma" ->
               CollectionAfter(d, name,
                 itemsAfterAggregate(filteredPrograma(rd, f), "programa", FALSE))
          [] name = "byProduto" ->
               CollectionAfter(d, name,
                 itemsAfterAggregate(filteredProduto(rd, f), "produto", TRUE))
          [] name = "byMunicipio" ->
               CollectionAfter(d, name,
                 itemsAfterAggregate(filteredMunicipio(rd, f), "name", TRUE))
          [] name = "bump" -> bumpAfter(d, f)
          [] OTHER -> d[name]
  IN  [name \in DOMAIN d |-> After(name)]

-----------------------------------------------------------------------------
(* Datasets: the parsed aggregated.json the hooks receive *)

\* number of distinct products of the large by-produto collection
NManyProdutos == 51

\* largest month bound a FilterState draws
MaxMes == 2

FinRec(a, m, fi, p, v, c, ar) ==
  [ano |-> a, mes |-> m, finalidade |-> fi, programa |-> p,
   valor |-> v, contratos |-> c, area |-> ar]

ProdRec(a, m, pr, fi, v, c, ar) ==
  [ano |-> a, mes |-> m, produto |-> pr, finalidade |-> fi,
   valor |-> v, contratos |-> c, area |-> ar]

MunRec(a, n, cod, p, v, c, ar) ==
  [ano |-> a, name |-> n, codIbge |-> cod, programa |-> p,
   valor |-> v, contratos |-> c, area |-> ar]

BumpRec(i, a, p, v, r) ==
  [id |-> i, name |-> i, ano |-> a, programa |-> p, valor |-> v, rank |-> r]

GenRec(a, m, g, v) == [ano |-> a, mes |-> m, genero |-> g, valor |-> v]

Node(i, l) == [id |-> i, label |-> l]

Link(s, t, v) == [source |-> s, target |-> t, value |-> v]

SankeyNodes ==
  << Node("prog_A", "P1"), Node("prog_B", "P2"),
     Node("fin_1", "F1"),  Node("fin_2", "F2"),
     Node("prod_1", "C1"), Node("prod_2", "C2") >>

\* candidate edges: positive, zero and negative values, and one edge whose
\* target is not a node
SankeyLinkPool ==
  << Link("prog_A", "fin_1", 10), Link("prog_A", "fin_2", 0),
     Link("prog_B", "fin_2", 7),  Link("fin_1", "prod_1", 5),
     Link("fin_2", "prod_1", 3),  Link("fin_2", "prod_2", 4),
     Link("fin_1", "prod_2", -1), Link("prog_B", "fin_9", 2) >>

\* the graph made of the pool's edges at the positions in S, in pool order
SankeyOf(S) ==
  LET In(l) == \E i \in S : SankeyLinkPool[i] = l
  IN  [nodes |-> SankeyNodes, links |-> SelectSeq(SankeyLinkPool, In)]

EmptyCollections ==
  [byFinalidade |-> <<>>, byPrograma |-> <<>>, byProduto |-> <<>>,
   byMunicipio |-> <<>>, byAno |-> <<>>, byMes |-> <<>>, bump |-> <<>>,
   byGenero |-> [byAnoMes |-> <<>>, totals |-> [masculino |-> 0, feminino |-> 0]],
   sankey |-> SankeyOf({}),
   metadata |-> [anoMin |-> 2020, anoMax |-> 2021],
   filters |-> [finalidades |-> <<"F1">>, programas |-> <<"P1">>]]

\* a small dataset for the interactive dashboard
DataSmall ==
  [byFinalidade |->
     << FinRec(2020, 1, "F1", "P1", 10, 2, 3), FinRec(2021, 2, "F2", "P1", 4, 1, 1),
        FinRec(2021, 3, "F1", "P2", 6, 3, 0) >>,
   byPrograma |->
     << FinRec(2020, 1, "F1", "P1", 10, 2, 3), FinRec(2021, 3, "F2", "P2", 6, 3, 0) >>,
   byProduto |->
     << ProdRec(2020, 1, "C1", "F1", 5, 1, 2), ProdRec(2021, 2, "C2", "F2", 6, 2, 1) >>,
   byMunicipio |->
     << MunRec(2020, "M1", 4101, "P1", 10, 2, 4), MunRec(2021, "M2", 4102, "P2", 6, 3, 2) >>,
   byAno |->
     << [ano |-> 2020, valor |-> 10, contratos |-> 2, area |-> 3],
        [ano |-> 2021, valor |-> 10, contratos |-> 4, area |-> 1] >>,
   byMes |->
     << [ano |-> 2020, mes |-> 1, valor |-> 10], [ano |-> 2021, mes |-> 2, valor |-> 4] >>,
   bump |->
     << BumpRec("M1", 2020, "P1", 10, 1), BumpRec("M2", 2021, "P2", 6, 1),
        BumpRec("M1", 2021, "P1", 4, 1) >>,
   byGenero |->
     [byAnoMes |-> << GenRec(2020, 1, "masculino", 12) >>,
      totals |-> [masculino |-> 12, feminino |-> 0]],
   sankey |-> SankeyOf({1, 3, 4}),
   metadata |-> [anoMin |-> 2020, anoMax |-> 2021],
   filters |-> [finalidades |-> <<"F1">>, programas |-> <<"P1">>]]

\* a regular dataset: every record carries the attributes of its collection
DataRegular ==
  [byFinalidade |->
     << FinRec(2019, 3, "F1", "P1", 5, 1, 2),  FinRec(2020, 1, "F1", "P1", 10, 2, 3),
        FinRec(2020, 2, "F2", "P1", 4, 1, 1),  FinRec(2020, 3, "F1", "P2", 6, 3, 0),
        FinRec(2021, 1, "F2", "P2", 8, 2, 5),  FinRec(2021, 2, "F1", "P1", 7, 1, 2),
        FinRec(2021, 3, "F2", "P1", 3, 0, 1),  FinRec(2022, 1, "F1", "P2", 9, 4, 4) >>,
   byPrograma |->
     << FinRec(2019, 3, "F1", "P1", 5, 1, 2),  FinRec(2020, 1, "F1", "P2", 6, 3, 0),
        FinRec(2020, 2, "F2", "P1", 4, 1, 1),  FinRec(2021, 2, "F1", "P1", 7, 1, 2),
        FinRec(2021, 3, "F2", "P2", 8, 2, 5),  FinRec(2022, 1, "F1", "P2", 9, 4, 4) >>,
   byProduto |->
     << ProdRec(2019, 3, "C1", "F1", 5, 1, 2), ProdRec(2020, 1, "C2", "F1", 6, 2, 1),
        ProdRec(2020, 2, "C1", "F2", 4, 1, 1), ProdRec(2021, 2, "C1", "F1", 7, 1, 2),
        ProdRec(2021, 3, "C2", "F2", 11, 2, 6), ProdRec(2022, 1, "C2", "F1", 9, 4, 4) >>,
   byMunicipio |->
     << MunRec(2019, "M1", 4101, "P1", 5, 1, 2),  MunRec(2020, "M1", 4101, "P1", 10, 2, 4),
        MunRec(2020, "M2", 4102, "P1", 4, 1, 1),  MunRec(2020, "M2", 4102, "P2", 6, 3, 2),
        MunRec(2021, "M1", 4101, "P2", 8, 2, 6),  MunRec(2021, "M2", 4102, "P1", 10, 1, 3),
        MunRec(2022, "M1", 4101, "P2", 9, 4, 5) >>,
   byAno |->
     << [ano |-> 2019, valor |-> 5, contratos |-> 1, area |-> 2],
        [ano |-> 2020, valor |-> 20, contratos |-> 6, area |-> 4],
        [ano |-> 2021, valor |-> 18, contratos |-> 3, area |-> 8],
        [ano |-> 2022, valor |-> 9, contratos |-> 4, area |-> 4] >>,
   byMes |->
     << [ano |-> 2019, mes |-> 3, valor |-> 5],  [ano |-> 2020, mes |-> 1, valor |-> 10],
        [ano |-> 2020, mes |-> 3, valor |-> 10], [ano |-> 2021, mes |-> 2, valor |-> 15],
        [ano |-> 2021, mes |-> 3, valor |-> 3],  [ano |-> 2022, mes |-> 1, valor |-> 9] >>,
   bump |->
     << BumpRec("M1", 2020, "P1", 10, 1), BumpRec("M2", 2020, "P1", 4, 2),
        BumpRec("M2", 2020, "P2", 6, 1),  BumpRec("M3", 2020, "P2", 1, 2),
        BumpRec("M2", 2021, "P1", 10, 1), BumpRec("M1", 2021, "P2", 8, 1),
        BumpRec("M3", 2021, "P1", 8, 2),  BumpRec("M1", 2021, "P1", 2, 3),
        BumpRec("M1", 2022, "P2", 9, 1) >>,
   byGenero |->
     [byAnoMes |-> << GenRec(2020, 1, "masculino", 12), GenRec(2020, 2, "feminino", 8),
                      GenRec(2020, 3, "masculino", 5) >>,
      totals |-> [masculino |-> 17, feminino |-> 8]],
   sankey |-> SankeyOf({1, 2, 3, 4, 5, 6}),
   metadata |-> [anoMin |-> 2020, anoMax |-> 2021],
   filters |-> [finalidades |-> <<"F1">>, programas |-> <<"P1">>]]

\* an irregular dataset: records without mes, valor or programa, by-finalidade
\* records that carry a produto, equal group totals, product names that are
\* array indices, leaderboard ids that differ from the names
DataIrregular ==
  [byFinalidade |->
     << [ano |-> 2020, finalidade |-> "F2", programa |-> "P1", valor |-> 6, contratos |-> 2],
        [ano |-> 2020, mes |-> 2, finalidade |-> "F1", programa |-> "P1", produto |-> "C1",
         valor |-> 6, contratos |-> 1, area |-> 2],
        [ano |-> 2021, mes |-> 2, finalidade |-> "F1", produto |-> "C2", contratos |-> 1],
        [ano |-> 2021, mes |-> 3, finalidade |-> "F3", programa |-> "P2", valor |-> 2,
         contratos |-> 0, area |-> 1] >>,
   byPrograma |->
     << [ano |-> 2020, programa |-> "P2", valor |-> 3, contratos |-> 1, area |-> 1],
        [ano |-> 2021, mes |-> 2, programa |-> "P1", finalidade |-> "F1", produto |-> "C1",
         valor |-> 3, contratos |-> 1, area |-> 1] >>,
   byProduto |->
     << ProdRec(2020, 2, "C1", "F1", 4, 1, 1), ProdRec(2020, 3, "12", "F1", 4, 1, 1),
        ProdRec(2021, 1, "7", "F2", 4, 2, 1),  ProdRec(2021, 2, "C1", "F2", 1, 1, 0) >>,
   byMunicipio |->
     << [ano |-> 2020, municipio |-> "M1", programa |-> "P1", valor |-> 5, area |-> 2],
        [ano |-> 2021, name |-> "M1", codIbge |-> 4101, valor |-> 5, contratos |-> 1, area |-> 3],
        [ano |-> 2021, name |-> "M2", programa |-> "P1", valor |-> 5, contratos |-> 2, area |-> 1] >>,
   byAno |-> << [ano |-> 2020, valor |-> 12], [ano |-> 2021, valor |-> 2] >>,
   byMes |-> << [ano |-> 2020, valor |-> 6], [ano |-> 2021, mes |-> 2, finalidade |-> "F1", valor |-> 1] >>,
   bump |->
     << [id |-> "4101", name |-> "M1", ano |-> 2021, programa |-> "P1", valor |-> 5, rank |-> 1],
        [id |-> "4102", name |-> "M2", ano |-> 2021, programa |-> "P1", valor |-> 5, rank |-> 2],
        [id |-> "4102", name |-> "M2", ano |-> 2021, programa |-> "P2", rank |-> 1],
        [id |-> "M1", ano |-> 2020, programa |-> "P2", valor |-> 3, rank |-> 1],
        [id |-> "4102", name |-> "M2", ano |-> 2020, programa |-> "P1", valor |-> 7, rank |-> 1] >>,
   byGenero |->
     [byAnoMes |-> << GenRec(2021, 2, "feminino", 4) >>,
      totals |-> [masculino |-> 9, feminino |-> 4]],
   sankey |-> SankeyOf({2, 7, 8}),
   metadata |-> [anoMin |-> 2020, anoMax |-> 2021],
   filters |-> [finalidades |-> <<"F1">>, programas |-> <<"P1">>]]

\* the name of the i-th product of the large collection
ProdutoName(i) == "C" \o ToString(i)

\* more distinct products than the produto roll-up keeps
DataManyProdutos ==
  [EmptyCollections EXCEPT
     !.byProduto = [i \in 1..NManyProdutos |->
                      ProdRec(2020 + (i % 2), 1, ProdutoName(i),
                              IF i % 3 = 0 THEN "F1" ELSE "F2", 1 + (i % 4), 1, i)]]

\* number of entities of the large leaderboard's single period
NManyEntities == 21

\* the id of the i-th entity of the large leaderboard
EntityId(i) == "E" \o ToString(i)

\* more entities in one period than the leaderboard keeps: program P1 gives
\* entity i the value i, program P2 adds to the first and the third entity
DataManyEntities ==
  [EmptyCollections EXCEPT
     !.bump = [i \in 1..NManyEntities |->
                 BumpRec(EntityId(i), 2020, "P1", i, NManyEntities + 1 - i)]
              \o << BumpRec(EntityId(1), 2020, "P2", 30, 1),
                    BumpRec(EntityId(3), 2020, "P2", 1, 2),
                    BumpRec(EntityId(1), 2021, "P2", 2, 1) >>]

\* by-purpose records whose year totals are 400 (2020) and 250 (2021)
DataYearTotals ==
  [EmptyCollections EXCEPT
     !.byFinalidade =
        << FinRec(2020, 1, "F1", "P1", 150, 3, 2), FinRec(2020, 2, "F2", "P2", 250, 5, 4),
           FinRec(2021, 1, "F1", "P1", 100, 2, 1), FinRec(2021, 2, "F2", "P2", 150, 2, 3) >>,
     !.byMunicipio =
        << MunRec(2020, "M1", 4101, "P1", 400, 8, 7), MunRec(2021, "M1", 4101, "P2", 250, 4, 5) >>]

\* a chain of one program, one purpose and one product: edges of value 10
\* and 5
DataChain ==
  [EmptyCollections EXCEPT
     !.sankey = [nodes |-> << Node("prog_A", "P1"), Node("fin_1", "F1"),
                              Node("prod_1", "C1") >>,
                 links |-> << Link("prog_A", "fin_1", 10), Link("fin_1", "prod_1", 5) >>]]

-----------------------------------------------------------------------------
(* App.jsx: state, combinedFilters, handlers *)

\* useState(null) of data; useFilteredData / useAggregations of a null input
NullData == [isNull |-> TRUE]
NullView == [ready |-> FALSE]

IsNull(x) == Has(x, "isNull")

InitialFilters ==
  [anoMin |-> nullNum, anoMax |-> nullNum, mesMin |-> nullNum, mesMax |-> nullNum,
   finalidade |-> nullStr, programa |-> nullStr, produto |-> nullStr,
   municipio |-> nullStr, granularidade |-> "anual"]

NoInteractiveFilters ==
  [finalidade |-> nullStr, programa |-> nullStr, produto |-> nullStr,
   municipio |-> nullStr, ano |-> nullNum]

InteractiveKeys == {"finalidade", "programa", "produto", "municipio", "ano"}

nullOf(key) == IF key = "ano" THEN nullNum ELSE nullStr

\* a || b on selections
Or(a, b, null) == IF a # null THEN a ELSE b

\* variant: the dropdown selection takes precedence (filters.x ||
\* interactiveFilters.x)
combinedFiltersDropdownFirst(fl, il) ==
  [ano |-> il.ano] @@
  [fl EXCEPT !.finalidade = Or(fl.finalidade, il.finalidade, nullStr),
             !.programa   = Or(fl.programa, il.programa, nullStr),
             !.produto    = Or(fl.produto, il.produto, nullStr),
             !.municipio  = Or(fl.municipio, il.municipio, nullStr)]

combinedFilters(fl, il) ==
  [ano |-> il.ano] @@
  [fl EXCEPT !.finalidade = Or(il.finalidade, fl.finalidade, nullStr),
             !.programa   = Or(il.programa, fl.programa, nullStr),
             !.produto    = Or(il.produto, fl.produto, nullStr),
             !.municipio  = Or(il.municipio, fl.municipio, nullStr)]

\* one render: both memoised hooks evaluated on the same inputs
RenderFiltered(d, fl, il) ==
  IF IsNull(d) THEN NullView ELSE useFilteredData(d, combinedFilters(fl, il))

\* variant: useAggregations is given the dropdown filters, not the combined
\* ones
RenderAggregationsDropdownOnly(fd, fl, il, year) ==
  IF ~fd.ready THEN NullView
  ELSE useAggregations(fd, fl, year)

RenderAggregations(fd, fl, il, year) ==
  IF ~fd.ready THEN NullView
  ELSE useAggregations(fd, combinedFilters(fl, il), year)

Rendered(d, fl, il) ==
  /\ filteredData' = RenderFiltered(d, fl, il)
  /\ aggregations' = RenderAggregations(filteredData', fl, il, now)

\* the filter controls and charts are rendered only after a successful load
\* (App returns <Loading/> or the error page otherwise), and an event is
\* handled only once the pending metadata effect has run
UiShown == ~loading /\ error = nullStr /\ ~IsNull(data) /\ pc = "done"

NoTrail == [phase |-> "none"]

\* the values a chart click can deliver, per selection
ClickValues(key) ==
  CASE key = "finalidade" -> {"F1", "F2"}
    [] key = "programa"   -> {"P1"}
    [] key = "produto"    -> {"C1"}
    [] key = "municipio"  -> {"M1"}
    [] key = "ano"        -> {2021}

\* variant: a click always sets the value, never toggles it off
handleFilterClickNoToggle(key, value) ==
  /\ UiShown
  /\ interactiveFilters' = [interactiveFilters EXCEPT ![key] = value]
  /\ trail' =
       IF interactiveFilters[key] = nullOf(key)
       THEN [phase |-> "set", key |-> key,
             combined |-> combinedFilters(filters, interactiveFilters),
             filteredData |-> filteredData, aggregations |-> aggregations]
       ELSE IF interactiveFilters[key] = value /\ trail.phase = "set" /\ trail.key = key
            THEN [trail EXCEPT !.phase = "cleared"]
            ELSE NoTrail
  /\ Rendered(data, filters, interactiveFilters')
  /\ UNCHANGED <<data, filters, pc, pending, loading, error, now>>

handleFilterClick(key, value) ==
  /\ UiShown
  /\ interactiveFilters' =
       [interactiveFilters EXCEPT
          ![key] = IF interactiveFilters[key] = value THEN nullOf(key) ELSE value]
  /\ trail' =
       IF interactiveFilters[key] = nullOf(key)
       THEN [phase |-> "set", key |-> key,
             combined |-> combinedFilters(filters, interactiveFilters),
             filteredData |-> filteredData, aggregations |-> aggregations]
       ELSE IF interactiveFilters[key] = value /\ trail.phase = "set" /\ trail.key = key
            THEN [trail EXCEPT !.phase = "cleared"]
            ELSE NoTrail
  /\ Rendered(data, filters, interactiveFilters')
  /\ UNCHANGED <<data, filters, pc, pending, loading, error, now>>

handleRemoveInteractiveFilter(key) ==
  /\ UiShown
  /\ interactiveFilters' = [interactiveFilters EXCEPT ![key] = nullOf(key)]
  /\ trail' = IF trail.phase = "set" /\ trail.key = key
              THEN [trail EXCEPT !.phase = "cleared"] ELSE NoTrail
  /\ Rendered(data, filters, interactiveFilters')
  /\ UNCHANGED <<data, filters, pc, pending, loading, error, now>>

clearInteractiveFilters ==
  /\ UiShown
  /\ interactiveFilters' = NoInteractiveFilters
  /\ trail' = IF /\ trail.phase = "set"
                 /\ \A k \in InteractiveKeys \ {trail.key} :
                      interactiveFilters[k] = nullOf(k)
              THEN [trail EXCEPT !.phase = "cleared"] ELSE NoTrail
  /\ Rendered(data, filters, interactiveFilters')
  /\ UNCHANGED <<data, filters, pc, pending, loading, error, now>>

\* Filters.jsx handleChange(key, value): the year selects offer the years of
\* the metadata range, the finalidade / programa selects offer "" (all) and
\* the options of data.filters, the granularidade buttons offer two values.
\* (The compatibilizarVBP toggle writes a field no hook reads; it is not part
\* of the state.)
SeqToSet(q) == {q[i] : i \in 1..Len(q)}

DropdownValues(key) ==
  IF IsNull(data) THEN {} ELSE
  CASE key = "anoMin"        -> data.metadata.anoMin .. data.metadata.anoMax
    [] key = "anoMax"        -> data.metadata.anoMin .. data.metadata.anoMax
    [] key = "finalidade"    -> {nullStr} \cup SeqToSet(data.filters.finalidades)
    [] key = "programa"      -> {nullStr} \cup SeqToSet(data.filters.programas)
    [] key = "granularidade" -> {"anual", "mensal"}

DropdownKeys == {"anoMin", "anoMax", "finalidade", "programa", "granularidade"}

handleChange(key, value) ==
  /\ UiShown
  /\ filters' = [filters EXCEPT ![key] = value]
  /\ trail' = NoTrail
  /\ Rendered(data, filters', interactiveFilters)
  /\ UNCHANGED <<data, interactiveFilters, pc, pending, loading, error, now>>

\* useEffect on data?.metadata: initial year bounds
MetadataEffect ==
  /\ pc = "effect"
  /\ filters' = [filters EXCEPT !.anoMin = Or(filters.anoMin, data.metadata.anoMin, nullNum),
                                !.anoMax = Or(filters.anoMax, data.metadata.anoMax, nullNum)]
  /\ pc' = "done"
  /\ trail' = NoTrail
  /\ Rendered(data, filters', interactiveFilters)
  /\ UNCHANGED <<data, interactiveFilters, pending, loading, error, now>>

-----------------------------------------------------------------------------
(* useData: loadData *)

AppDatasets == {DataSmall}

LoadErrors == {"Falha ao carregar dados agregados", "Failed to fetch", "Unexpected token"}

\* fetch of aggregated.json rejects, answers non-OK, or its body does not
\* parse: catch sets error, finally clears loading
AggregatedFails(msg) ==
  /\ pc = "fetchAggregated"
  /\ error' = msg
  /\ loading' = FALSE
  /\ pc' = "done"
  /\ UNCHANGED <<data, filters, interactiveFilters, filteredData, aggregations,
                 trail, pending, now>>

AggregatedLoads(d) ==
  /\ pc = "fetchAggregated"
  /\ pending' = d
  /\ pc' = "fetchForecasts"
  /\ UNCHANGED <<data, filters, interactiveFilters, filteredData, aggregations,
                 trail, loading, error, now>>

ForecastOutcomes == {"ok", "notOk", "rejected", "unparsable"}

\* variant: no inner try / catch: a forecasts fetch that rejects or does not
\* parse reaches the outer catch
ForecastsSettleUncaught(outcome) ==
  /\ pc = "fetchForecasts"
  /\ IF outcome \in {"rejected", "unparsable"}
     THEN /\ error' = "Failed to fetch"
          /\ pc' = "done"
          /\ UNCHANGED <<data, filteredData, aggregations, trail>>
     ELSE /\ data' = [forecasts |-> IF outcome = "ok" THEN [total |-> "predictions"]
                                   ELSE [isNull |-> TRUE]] @@ pending
          /\ pc' = "effect"
          /\ trail' = NoTrail
          /\ Rendered(data', filters, interactiveFilters)
          /\ error' = error
  /\ loading' = FALSE
  /\ UNCHANGED <<filters, interactiveFilters, pending, now>>

\* the optional forecasts fetch settles; setData, then finally clears loading
ForecastsSettle(outcome) ==
  /\ pc = "fetchForecasts"
  /\ data' = [forecasts |-> IF outcome = "ok" THEN [total |-> "predictions"]
                            ELSE [isNull |-> TRUE]] @@ pending
  /\ loading' = FALSE
  /\ pc' = "effect"
  /\ trail' = NoTrail
  /\ Rendered(data', filters, interactiveFilters)
  /\ UNCHANGED <<filters, interactiveFilters, pending, error, now>>

-----------------------------------------------------------------------------
(* The dashboard: load, then filter changes *)

CalendarYears == {2021, 2022}

Init ==
  /\ data = NullData
  /\ pending = NullData
  /\ loading = TRUE
  /\ error = nullStr
  /\ pc = "fetchAggregated"
  /\ filters = InitialFilters
  /\ interactiveFilters = NoInteractiveFilters
  /\ filteredData = NullView
  /\ aggregations = NullView
  /\ trail = NoTrail
  /\ now \in {2021}

Next ==
  \/ \E msg \in LoadErrors : AggregatedFails(msg)
  \/ \E d \in AppDatasets : AggregatedLoads(d)
  \/ \E outcome \in ForecastOutcomes : ForecastsSettle(outcome)
  \/ MetadataEffect
  \/ \E key \in DropdownKeys : \E value \in DropdownValues(key) : handleChange(key, value)
  \/ \E key \in InteractiveKeys : \E value \in ClickValues(key) : handleFilterClick(key, value)
  \/ \E key \in InteractiveKeys : handleRemoveInteractiveFilter(key)
  \/ clearInteractiveFilters

Spec == Init /\ [][Next]_vars

\* the steps of loadData
LoadStep ==
  \/ \E msg \in LoadErrors : AggregatedFails(msg)
  \/ \E d \in AppDatasets : AggregatedLoads(d)
  \/ \E outcome \in ForecastOutcomes : ForecastsSettle(outcome)

\* every fetch settles (the browser resolves or rejects each request) and
\* the code after an await runs once its promise has settled
SpecLoad == Spec /\ WF_vars(LoadStep)

-----------------------------------------------------------------------------
(* The engine as a function: every FilterState on every dataset *)

YearChoices == {nullNum, 2020, 2021}

MesChoices == {nullNum} \cup (2..MaxMes)

FilterStates ==
  [anoMin : YearChoices, anoMax : YearChoices, mesMin : MesChoices, mesMax : MesChoices,
   finalidade : {nullStr, "F1"}, programa : {nullStr, "P1"}, produto : {nullStr, "C1"},
   municipio : {nullStr, "M1"}, granularidade : {"anual", "mensal"}]

\* FilterStates that only select categories
CategoryFilterStates ==
  { fl \in [anoMin : {nullNum}, anoMax : {nullNum}, mesMin : {nullNum}, mesMax : {nullNum},
            finalidade : {nullStr, "F1"}, programa : {nullStr, "P1"},
            produto : {nullStr, "C1"}, municipio : {nullStr},
            granularidade : {"anual"}] : TRUE }

GraphDatasets ==
  { [EmptyCollections EXCEPT !.sankey = SankeyOf(S)] :
      S \in SUBSET (1..Len(SankeyLinkPool)) }

\* the arguments of a direct call of aggregateByKey
IsCall(x) == Has(x, "items")

\* <<dataset, dropdown state, single-year override, calendar year>>
EngineInputs ==
  ({DataRegular, DataIrregular} \X FilterStates \X YearChoices \X CalendarYears)
  \cup ({DataManyProdutos, DataManyEntities} \X CategoryFilterStates \X {nullNum} \X {2021})
  \cup ({DataYearTotals} \X CategoryFilterStates \X {nullNum} \X CalendarYears)
  \cup ((GraphDatasets \cup {DataChain}) \X CategoryFilterStates \X {nullNum} \X {2021})

InitEngine ==
  /\ \E in \in EngineInputs :
       /\ data = in[1]
       /\ filters = in[2]
       /\ interactiveFilters = [NoInteractiveFilters EXCEPT !.ano = in[3]]
       /\ now = in[4]
  /\ pending = NullData
  /\ loading = FALSE
  /\ error = nullStr
  /\ pc = "done"
  /\ filteredData = NullView
  /\ aggregations = NullView
  /\ trail = NoTrail

\* one evaluation of useFilteredData and useAggregations on the inputs
Evaluate ==
  /\ ~IsNull(data) /\ ~IsCall(data)
  /\ filteredData = NullView
  /\ Rendered(data, filters, interactiveFilters)
  /\ data' = DatasetAfter(data, combinedFilters(filters, interactiveFilters))
  /\ UNCHANGED <<filters, interactiveFilters, trail, pc, pending, loading,
                 error, now>>

NextEngine == Evaluate

SpecEngine == InitEngine /\ [][NextEngine]_vars

-----------------------------------------------------------------------------
(* Properties *)

\* the FilterState the hooks are called with
F == combinedFilters(filters, interactiveFilters)

\* the hooks have been evaluated on a loaded dataset
Evaluated == filteredData.ready

SumValor(rows) == SumField(rows, "valor")

DistinctKeys(rows, key) == {GroupKey(rows[i], key) : i \in 1..Len(rows)}

Conserved(totals, records) == SumValor(filteredData[totals]) = SumValor(filteredData[records])

\* C1 (as stated): every published roll-up (finalidadeTotals, programaTotals,
\* produtoTotals, municipioTotals) has the same summed valor as the filtered
\* records it was built from.
C1_ConservationAllRollups ==
  Evaluated =>
    /\ Conserved("finalidadeTotals", "byFinalidade")
    /\ Conserved("programaTotals", "byPrograma")
    /\ Conserved("produtoTotals", "byProduto")
    /\ Conserved("municipioTotals", "byMunicipio")

\* C1 (amended): finalidadeTotals, programaTotals and municipioTotals conserve
\* the summed valor of their filtered records; produtoTotals, which keeps only
\* the first 50 rows, conserves it whenever the filtered by-produto records
\* have at most 50 distinct products.
C1_Conservation ==
  Evaluated =>
    /\ Conserved("finalidadeTotals", "byFinalidade")
    /\ Conserved("programaTotals", "byPrograma")
    /\ Conserved("municipioTotals", "byMunicipio")
    /\ Cardinality(DistinctKeys(filteredData.byProduto, "produto")) <= TopProdutos
         => Conserved("produtoTotals", "byProduto")

\* a category filter is active and several records fold into each of at
\* least two product rows
C1_Witness ==
  /\ Evaluated
  /\ F.finalidade # nullStr
  /\ Len(filteredData.produtoTotals) >= 2
  /\ Len(filteredData.byProduto) >= Len(filteredData.produtoTotals) + 2
  /\ SumValor(filteredData.produtoTotals) > 0

NodeIds(g) == {g.nodes[i].id : i \in 1..Len(g.nodes)}

Integrity(g) ==
  \A i \in 1..Len(g.links) :
    g.links[i].source \in NodeIds(g) /\ g.links[i].target \in NodeIds(g)

FilterActive == F.programa # nullStr \/ F.finalidade # nullStr \/ F.produto # nullStr

\* the edges that pass the edge-survival rules under the current FilterState
Survivors == filteredLinks(data.sankey.nodes, data.sankey.links, F)

\* C2: every edge of the returned flow graph has its source and its target
\* among the returned nodes -- for every input graph whose own edges reference
\* its own nodes (with or without an active filter, fallback included), and
\* for any input graph at all once a filter is active and an edge survives.
C2_GraphIntegrity ==
  (Evaluated /\ (Integrity(data.sankey) \/ (FilterActive /\ Survivors # <<>>)))
    => Integrity(filteredData.sankey)

\* pruning happened: edges survive and some node was dropped
C2_Witness ==
  /\ Evaluated
  /\ FilterActive
  /\ Integrity(data.sankey)
  /\ Len(filteredData.sankey.links) >= 2
  /\ Len(filteredData.sankey.links) < Len(data.sankey.links)
  /\ Len(filteredData.sankey.nodes) < Len(data.sankey.nodes)

AllPositive(g) == \A i \in 1..Len(g.links) : g.links[i].value > 0

\* C3 (as stated): the returned flow graph never contains an edge whose value
\* is zero or negative, whatever the filters.
C3_NoNonPositiveEdgeEver == Evaluated => AllPositive(filteredData.sankey)

\* C3 (amended): when a purpose/program/product filter is active and at least
\* one edge survives, the returned flow graph contains no edge whose value is
\* zero or negative.
C3_NoNonPositiveEdgeWhenPruned ==
  (Evaluated /\ FilterActive /\ Survivors # <<>>) => AllPositive(filteredData.sankey)

\* a pruned graph whose input had a zero or negative edge
C3_Witness ==
  /\ Evaluated
  /\ FilterActive
  /\ Survivors # <<>>
  /\ ~AllPositive(data.sankey)

\* C4: with a filter active and no surviving edge, the returned flow graph is
\* the input graph, nodes and edges unchanged.
C4_EmptyResultFallsBack ==
  (Evaluated /\ FilterActive /\ Survivors = <<>>) => filteredData.sankey = data.sankey

\* the filter removes every edge of a graph that has positive edges
C4_Witness ==
  /\ Evaluated
  /\ FilterActive
  /\ Survivors = <<>>
  /\ \E i \in 1..Len(data.sankey.links) : data.sankey.links[i].value > 0
  /\ filteredData.sankey.links # <<>>

Periods(b) == {b[i].ano : i \in 1..Len(b)}

EntriesOf(b, ano) ==
  LET InYear(e) == e.ano = ano
  IN  SelectSeq(b, InYear)

\* ranks of each period are exactly 1..n and a smaller rank never has a
\* smaller value
DenseRanks(b) ==
  \A ano \in Periods(b) :
    LET e == EntriesOf(b, ano)
    IN  /\ {e[i].rank : i \in 1..Len(e)} = 1..Len(e)
        /\ \A i, j \in 1..Len(e) :
             e[i].rank < e[j].rank => Num(e[i], "valor") >= Num(e[j], "valor")

\* C5 (as stated): for every FilterState, municipality filter included, the
\* ranks of each period of the leaderboard are 1..n in order of value.
C5_DenseRanksAlways == Evaluated => DenseRanks(filteredData.bump)

\* C5 (amended): when neither a program filter nor a municipality filter is
\* active, the ranks of each period of the leaderboard are exactly 1..n and an
\* entry with a smaller rank never has a smaller value.
C5_DenseRanksWhenRecomputed ==
  (Evaluated /\ F.programa = nullStr /\ F.municipio = nullStr)
    => DenseRanks(filteredData.bump)

\* a recomputed leaderboard: rows of several programs were summed and a
\* period has at least two ranked entries
C5_Witness ==
  /\ Evaluated
  /\ F.programa = nullStr /\ F.municipio = nullStr
  /\ Len(filteredData.bump) < Len(data.bump)
  /\ \E ano \in Periods(filteredData.bump) : Len(EntriesOf(filteredData.bump, ano)) >= 3

\* C6: setting a selection that was null and then clearing it (same value
\* clicked again, its removal, or clear-all when it is the only interactive
\* selection) restores the combined FilterState and every derived view.
C6_SetThenClearRestores ==
  trail.phase = "cleared" =>
    /\ F = trail.combined
    /\ filteredData = trail.filteredData
    /\ aggregations = trail.aggregations

\* a selection was set and cleared while another selection stayed active
C6_Witness ==
  /\ trail.phase = "cleared"
  /\ trail.key = "finalidade"
  /\ filters.finalidade # nullStr
  /\ interactiveFilters.programa # nullStr
  /\ Evaluated

\* the exclusion rule in the words of the claim
PeriodKeeps(r, anoMin, anoMax, mesMin, mesMax) ==
  LET year  == r.ano
      month == IF Has(r, "mes") THEN r.mes ELSE 1
  IN  ~ \/ (anoMin # nullNum /\ year < anoMin)
        \/ (anoMax # nullNum /\ year > anoMax)
        \/ (year = anoMin /\ mesMin # nullNum /\ month < mesMin)
        \/ (year = anoMax /\ mesMax # nullNum /\ month > mesMax)

\* the records of a collection, in input order, that the window keeps
KeptByWindow(records, anoMin, anoMax, mesMin, mesMax) ==
  LET Keep(r) == PeriodKeeps(r, anoMin, anoMax, mesMin, mesMax)
  IN  SelectSeq(records, Keep)

\* C7: filterByPeriod keeps, in input order, exactly the records that no year
\* or month bound excludes; a record without a month counts as month 1 and an
\* absent bound excludes nothing.
C7_PeriodWindow ==
  Evaluated =>
    /\ filteredData.byMes =
         KeptByWindow(data.byMes, effectiveAnoMin(F), effectiveAnoMax(F), F.mesMin, F.mesMax)
    /\ filteredData.byAno =
         KeptByWindow(data.byAno, effectiveAnoMin(F), effectiveAnoMax(F), nullNum, nullNum)
    /\ (~FilterActive /\ F.municipio = nullStr) =>
         /\ filteredData.byFinalidade =
              KeptByWindow(data.byFinalidade, effectiveAnoMin(F), effectiveAnoMax(F),
                           F.mesMin, F.mesMax)
         /\ filteredData.byMunicipio =
              KeptByWindow(data.byMunicipio, effectiveAnoMin(F), effectiveAnoMax(F),
                           F.mesMin, F.mesMax)

\* both year bounds and both month bounds exclude records, and records remain
C7_Witness ==
  /\ Evaluated
  /\ F.ano = nullNum
  /\ F.anoMin = 2020 /\ F.anoMax = 2021
  /\ F.mesMin = 2 /\ F.mesMax = 2
  /\ Len(filteredData.byMes) >= 2
  /\ Len(filteredData.byMes) + 4 <= Len(data.byMes)

PeriodOutputs ==
  {"byFinalidade", "byPrograma", "byProduto", "byMunicipio", "byAno", "byMes", "bump"}

OnlyYear(records, ano) == \A i \in 1..Len(records) : records[i].ano = ano

\* C8: with the single-year override set, every period-filtered output and
\* the period-filtered gender series hold records of that year only, whatever
\* anoMin and anoMax are.
C8_YearOverride ==
  (Evaluated /\ F.ano # nullNum) =>
    /\ \A c \in PeriodOutputs : OnlyYear(filteredData[c], F.ano)
    /\ OnlyYear(filteredGenero(data, F), F.ano)

\* the override lies outside the range of the bounds and records remain
C8_Witness ==
  /\ Evaluated
  /\ F.ano = 2020
  /\ F.anoMin = 2021 /\ F.anoMax = 2021
  /\ filteredData.byFinalidade # <<>>
  /\ filteredData.bump # <<>>
  /\ filteredGenero(data, F) # <<>>

Dims == {"finalidade", "programa", "produto", "municipio"}

RecordCollections == {"byFinalidade", "byPrograma", "byProduto", "byMunicipio", "byAno", "byMes"}

\* which predicate a selection puts on a record of a collection
Matches(c, dim, r, sel) ==
  CASE c \in {"byFinalidade", "byPrograma"} /\ dim \in {"finalidade", "programa"} ->
         Has(r, dim) /\ r[dim] = sel
    [] c \in {"byFinalidade", "byPrograma"} /\ dim = "produto" ->
         ~Has(r, "produto") \/ r.produto = sel
    [] c = "byProduto" /\ dim \in {"finalidade", "produto"} ->
         Has(r, dim) /\ r[dim] = sel
    [] c = "byMunicipio" /\ dim = "programa" ->
         Has(r, "programa") /\ r.programa = sel
    [] c = "byMunicipio" /\ dim = "municipio" ->
         (Has(r, "name") /\ r.name = sel) \/ (Has(r, "municipio") /\ r.municipio = sel)
    [] OTHER -> TRUE

\* the records of collection c inside the period window that satisfy the
\* active selections of the dimensions in dims
Selected(c, dims) ==
  LET mMin == IF c = "byAno" THEN nullNum ELSE F.mesMin
      mMax == IF c = "byAno" THEN nullNum ELSE F.mesMax
      Keep(r) == /\ PeriodKeeps(r, effectiveAnoMin(F), effectiveAnoMax(F), mMin, mMax)
                 /\ \A dim \in dims : F[dim] # nullStr => Matches(c, dim, r, F[dim])
  IN  SelectSeq(data[c], Keep)

\* C9: a dimension whose selection is null removes nothing: every collection
\* equals the period window plus the other active selections, and with no
\* purpose, program or product selection the flow graph is the input graph.
C9_NullSelectionIsNoOp ==
  Evaluated =>
    /\ \A d \in Dims : F[d] = nullStr =>
         \A c \in RecordCollections : filteredData[c] = Selected(c, Dims \ {d})
    /\ ~FilterActive => filteredData.sankey = data.sankey

\* one selection is null while two others narrow the by-finalidade records
C9_Witness ==
  /\ Evaluated
  /\ F.finalidade = nullStr
  /\ F.programa # nullStr /\ F.produto # nullStr
  /\ filteredData.byFinalidade # <<>>
  /\ Len(filteredData.byFinalidade) < Len(data.byFinalidade)

Without(f, dims) == [k \in DOMAIN f |-> IF k \in dims THEN nullStr ELSE f[k]]

\* C10: a filter leaves unchanged every collection that lacks its attribute:
\* purpose and product leave by-municipality alone, program and municipality
\* leave by-product alone, municipality leaves by-purpose and by-program
\* alone, no category filter touches by-year or by-month, and a by-purpose or
\* by-program record without a product passes the product filter.
C10_FilterSkipsCollectionsWithoutAttribute ==
  Evaluated =>
    /\ filteredData.byMunicipio = filteredMunicipio(data, Without(F, {"finalidade", "produto"}))
    /\ filteredData.byProduto = filteredProduto(data, Without(F, {"programa", "municipio"}))
    /\ filteredData.byFinalidade = filteredFinalidade(data, Without(F, {"municipio"}))
    /\ filteredData.byPrograma = filteredPrograma(data, Without(F, {"municipio"}))
    /\ filteredData.byAno = filteredAno(data, Without(F, Dims))
    /\ filteredData.byMes = filteredMes(data, Without(F, Dims))
    /\ LET noProd == filteredFinalidade(data, Without(F, {"produto"}))
       IN  \A i \in 1..Len(noProd) :
             ~Has(noProd[i], "produto") =>
               \E j \in 1..Len(filteredData.byFinalidade) :
                 filteredData.byFinalidade[j] = noProd[i]

\* all four selections are active and both collections keep records
C10_Witness ==
  /\ Evaluated
  /\ \A d \in Dims : F[d] # nullStr
  /\ filteredData.byMunicipio # <<>>
  /\ filteredData.byProduto # <<>>
  /\ Len(filteredData.byProduto) < Len(data.byProduto)

\* position of the first record of items whose key value is k
FirstAppearance(items, key, k) ==
  CHOOSE i \in 1..Len(items) :
    /\ GroupKey(items[i], key) = k
    /\ \A j \in 1..(i - 1) : GroupKey(items[j], key) # k

\* rows are in non-increasing order of valor, equal valor in order of first
\* appearance of the key among items
RollupOrder(rows, items, key) ==
  \A i, j \in 1..Len(rows) :
    i < j =>
      /\ rows[i].valor >= rows[j].valor
      /\ rows[i].valor = rows[j].valor =>
           FirstAppearance(items, key, GroupKey(rows[i], key))
             < FirstAppearance(items, key, GroupKey(rows[j], key))

OneRowPerKey(rows, items, key) ==
  /\ DistinctKeys(rows, key) = DistinctKeys(items, key)
  /\ Len(rows) = Cardinality(DistinctKeys(items, key))

\* C11 (as stated): every roll-up has one row per distinct key value of its
\* filtered records, in non-increasing order of summed valor, rows of equal
\* valor in the order in which their keys first appear in the records --
\* whatever the key values are, numeric-looking strings included.
C11_SortedTiesByFirstAppearance ==
  Evaluated =>
    /\ OneRowPerKey(filteredData.finalidadeTotals, filteredData.byFinalidade, "finalidade")
    /\ OneRowPerKey(filteredData.programaTotals, filteredData.byPrograma, "programa")
    /\ OneRowPerKey(filteredData.municipioTotals, filteredData.byMunicipio, "name")
    /\ Cardinality(DistinctKeys(filteredData.byProduto, "produto")) <= TopProdutos
         => OneRowPerKey(filteredData.produtoTotals, filteredData.byProduto, "produto")
    /\ RollupOrder(filteredData.finalidadeTotals, filteredData.byFinalidade, "finalidade")
    /\ RollupOrder(filteredData.programaTotals, filteredData.byPrograma, "programa")
    /\ RollupOrder(filteredData.municipioTotals, filteredData.byMunicipio, "name")
    /\ RollupOrder(filteredData.produtoTotals, filteredData.byProduto, "produto")

-----------------------------------------------------------------------------
(* aggregateByKey as a function: direct calls next to the engine's calls *)

\* longest record list a direct call is given
MaxItems == 3

AggregateRecords == [programa : {"P1", "P2"}, valor : {100, 150, 300}]

AggregateItems == UNION { [1..n -> AggregateRecords] : n \in 0..MaxItems }

AggregateCalls == [items : AggregateItems, key : {"programa"}, includeRank : BOOLEAN]

\* datasets whose roll-ups are ranked and truncated by the engine
RankedInputs ==
  {DataManyProdutos, DataRegular, DataIrregular} \X CategoryFilterStates

InitAggregate ==
  /\ \/ /\ data \in AggregateCalls
        /\ filters = InitialFilters
     \/ \E in \in RankedInputs :
          /\ data = in[1]
          /\ filters = in[2]
  /\ interactiveFilters = NoInteractiveFilters
  /\ now = 2021
  /\ pending = NullData
  /\ loading = FALSE
  /\ error = nullStr
  /\ pc = "done"
  /\ filteredData = NullView
  /\ aggregations = NullView
  /\ trail = NoTrail

\* one call aggregateByKey(items, key, includeRank)
Aggregate ==
  /\ IsCall(data)
  /\ filteredData = NullView
  /\ filteredData' = [ready |-> FALSE,
                      rows  |-> aggregateByKey(data.items, data.key, data.includeRank)]
  /\ UNCHANGED <<data, filters, interactiveFilters, aggregations, trail, pc, pending,
                 loading, error, now>>

NextAggregate == Aggregate \/ Evaluate

SpecAggregate == InitAggregate /\ [][NextAggregate]_vars

\* a direct call of aggregateByKey has returned
Aggregated == Has(filteredData, "rows")

\* summed valor of the records of items whose key value is k
GroupValor(items, key, k) ==
  LET InGroup(r) == GroupKey(r, key) = k
  IN  SumField(SelectSeq(items, InGroup), "valor")

RankIsPosition(rows) == \A i \in 1..Len(rows) : Has(rows[i], "rank") /\ rows[i].rank = i

\* rows are the n highest-value groups of items, highest first: each row
\* carries the summed valor of its key and no group left out has more
HighestGroups(rows, items, key, n) ==
  /\ Len(rows) = Min2(Cardinality(DistinctKeys(items, key)), n)
  /\ Cardinality(DistinctKeys(rows, key)) = Len(rows)
  /\ \A i \in 1..Len(rows) :
       /\ rows[i].valor = GroupValor(items, key, GroupKey(rows[i], key))
       /\ \A j \in 1..Len(rows) : i < j => rows[i].valor >= rows[j].valor
       /\ \A k \in DistinctKeys(items, key) \ DistinctKeys(rows, key) :
            GroupValor(items, key, k) <= rows[i].valor

\* the records P1:100, P2:300, P1:150
ExampleItems ==
  << [programa |-> "P1", valor |-> 100], [programa |-> "P2", valor |-> 300],
     [programa |-> "P1", valor |-> 150] >>

\* C12: a ranked aggregate has rank i on its i-th row, so its ranks are 1..N;
\* produtoTotals, truncated to 50 rows after ranking, holds the 50
\* highest-value groups with ranks 1..min(N, 50); P1:100, P2:300, P1:150 by
\* program give P2 300 rank 1, P1 250 rank 2.
C12_RankThenTruncate ==
  /\ (Aggregated /\ data.includeRank) =>
       /\ RankIsPosition(filteredData.rows)
       /\ HighestGroups(filteredData.rows, data.items, data.key, Len(data.items))
  /\ (Aggregated /\ data.includeRank /\ data.items = ExampleItems) =>
       /\ Len(filteredData.rows) = 2
       /\ filteredData.rows[1].programa = "P2" /\ filteredData.rows[1].valor = 300
       /\ filteredData.rows[1].rank = 1
       /\ filteredData.rows[2].programa = "P1" /\ filteredData.rows[2].valor = 250
       /\ filteredData.rows[2].rank = 2
  /\ Evaluated =>
       /\ RankIsPosition(filteredData.municipioTotals)
       /\ HighestGroups(filteredData.municipioTotals, filteredData.byMunicipio, "name",
                        Len(filteredData.byMunicipio))
       /\ RankIsPosition(filteredData.produtoTotals)
       /\ HighestGroups(filteredData.produtoTotals, filteredData.byProduto, "produto",
                        TopProdutos)

\* the product roll-up was truncated: more than 50 products, 50 ranked rows
\* of unequal value
C12_Witness ==
  /\ Evaluated
  /\ Cardinality(DistinctKeys(filteredData.byProduto, "produto")) > TopProdutos
  /\ Len(filteredData.produtoTotals) = TopProdutos
  /\ filteredData.produtoTotals[1].valor > filteredData.produtoTotals[TopProdutos].valor

\* the leaderboard rows of the dataset inside the year window
BumpRowsInWindow ==
  LET InWindow(r) == /\ ~(effectiveAnoMin(F) # nullNum /\ r.ano < effectiveAnoMin(F))
                     /\ ~(effectiveAnoMax(F) # nullNum /\ r.ano > effectiveAnoMax(F))
  IN  SelectSeq(data.bump, InWindow)

\* summed valor of the rows of one (entity, period) pair
PairValor(rows, id, ano) ==
  LET OfPair(r) == r.id = id /\ r.ano = ano
  IN  SumField(SelectSeq(rows, OfPair), "valor")

\* position of the first row of the pair
PairFirst(rows, id, ano) ==
  CHOOSE i \in 1..Len(rows) :
    /\ rows[i].id = id /\ rows[i].ano = ano
    /\ \A j \in 1..(i - 1) : ~(rows[j].id = id /\ rows[j].ano = ano)

EntitiesOf(rows, ano) == {rows[i].id : i \in {j \in 1..Len(rows) : rows[j].ano = ano}}

\* b is the leaderboard recomputed from rows: per period the K highest
\* (entity, period) sums, highest first, ties by first appearance, ranked by
\* position
Recomputed(b, rows) ==
  /\ Periods(b) = Periods(rows)
  /\ \A ano \in Periods(rows) :
       LET e == EntriesOf(b, ano)
       IN  /\ Len(e) = Min2(Cardinality(EntitiesOf(rows, ano)), TopBump)
           /\ Len(e) <= 20
           /\ Cardinality(EntitiesOf(e, ano)) = Len(e)
           /\ \A i \in 1..Len(e) :
                /\ e[i].rank = i
                /\ e[i].rank # 0
                /\ e[i].valor = PairValor(rows, e[i].id, ano)
                /\ \A j \in 1..Len(e) :
                     i < j =>
                       /\ e[i].valor >= e[j].valor
                       /\ e[i].valor = e[j].valor =>
                            PairFirst(rows, e[i].id, ano) < PairFirst(rows, e[j].id, ano)
                /\ \A id \in EntitiesOf(rows, ano) \ EntitiesOf(e, ano) :
                     PairValor(rows, id, ano) <= e[i].valor

\* C13 (as stated): whenever no program filter is active, the leaderboard is
\* the recomputation of the period-filtered rows: one entry per (entity,
\* period) with the summed valor, per period ordered by value (ties by first
\* appearance), the first 20 kept, ranked 1..min(n, 20).
C13_RecomputedWithoutProgram ==
  (Evaluated /\ F.programa = nullStr) => Recomputed(filteredData.bump, BumpRowsInWindow)

\* C13 (amended): the same, when neither a program filter nor a municipality
\* filter is active.
C13_RecomputedWithoutProgramOrMunicipality ==
  (Evaluated /\ F.programa = nullStr /\ F.municipio = nullStr)
    => Recomputed(filteredData.bump, BumpRowsInWindow)

\* a period with more than 20 entities was summed over two programs and cut
\* to 20 entries
C13_Witness ==
  /\ Evaluated
  /\ F.programa = nullStr /\ F.municipio = nullStr
  /\ \E ano \in Periods(BumpRowsInWindow) :
       /\ Cardinality(EntitiesOf(BumpRowsInWindow, ano)) > TopBump
       /\ Len(EntriesOf(filteredData.bump, ano)) = TopBump
       /\ Len(EntriesOf(BumpRowsInWindow, ano)) > Cardinality(EntitiesOf(BumpRowsInWindow, ano))

\* the rows inside the year window whose program is the selected one
BumpRowsOfProgram ==
  LET OfProgram(r) == Has(r, "programa") /\ r.programa = F.programa
  IN  SelectSeq(BumpRowsInWindow, OfProgram)

\* the rows of a list that name the selected municipality
OfMunicipality(rows) ==
  LET Named(r) == \/ Has(r, "name") /\ r.name = F.municipio
                  \/ Has(r, "municipio") /\ r.municipio = F.municipio
                  \/ Has(r, "id") /\ r.id = F.municipio
  IN  SelectSeq(rows, Named)

PrimarySlice == filteredData.byFinalidade

\* the KPI totals carry the measure as a number equal to the slice's sum
TotalIs(measure) ==
  /\ Has(aggregations.totals, measure)
  /\ aggregations.totals[measure] = SumField(PrimarySlice, measure)

\* C15 (as stated): value and contractCount are the sums of valor and
\* contratos over the filtered by-purpose slice, missing measures counted as
\* 0, and an empty slice gives 0 -- never undefined; area is likewise a number
\* and is the slice's sum of area when a purpose or program filter is active
\* (the municipality source of the area is the subject of C17);
\* averageValuePerContract is value / contractCount, or 0 when contractCount
\* is 0.
C15_KpiTotals ==
  (Evaluated /\ aggregations.ready) =>
    /\ TotalIs("valor")
    /\ TotalIs("contratos")
    /\ Has(aggregations.totals, "area")
    /\ (F.programa # nullStr \/ F.finalidade # nullStr) => TotalIs("area")
    /\ LET value  == SumField(PrimarySlice, "valor")
           count  == SumField(PrimarySlice, "contratos")
           medio  == aggregations.totals.valorMedio
       IN  IF count > 0
           THEN medio.num * count = value * medio.den
           ELSE medio.num = 0

\* the year the change is measured for
CurrentYear == IF F.anoMax # nullNum THEN F.anoMax ELSE now

\* summed valor of the primary slice for one year; 0 when the year is absent
YearTotal(ano) ==
  LET OfYear(r) == Has(r, "ano") /\ r.ano = ano
  IN  SumField(SelectSeq(PrimarySlice, OfYear), "valor")

\* C16: with currentYear the upper year bound (the calendar year when there
\* is none), yoyChange is (current - previous) / previous * 100 over the
\* primary slice's year totals, and it is null exactly when one of the two
\* totals is zero or its year is absent; totals 250 and 400 give -37.5.
C16_YoyChange ==
  (Evaluated /\ aggregations.ready) =>
    LET cur  == YearTotal(CurrentYear)
        prev == YearTotal(CurrentYear - 1)
        yoy  == aggregations.totals.yoyChange
    IN  /\ yoy.null <=> (cur = 0 \/ prev = 0)
        /\ ~yoy.null => yoy.num * prev = (cur - prev) * 100 * yoy.den
        /\ (cur = 250 /\ prev = 400) => yoy.num * 10 = (-375) * yoy.den

\* no upper bound is set, the calendar year supplies the current year, and
\* the totals are 250 against 400
C16_Witness ==
  /\ Evaluated /\ aggregations.ready
  /\ F.anoMax = nullNum
  /\ YearTotal(CurrentYear) = 250
  /\ YearTotal(CurrentYear - 1) = 400
  /\ ~aggregations.totals.yoyChange.null

MunicipalityArea == SumField(filteredData.municipioTotals, "area")

SliceArea == SumField(PrimarySlice, "area")

\* C17 (as stated, for a non-empty primary slice): with no purpose, program
\* or product filter the KPI area is the sum of area over the municipality
\* roll-up; with one of them it is the sum of area over the primary slice.
C17_AreaSourceByCategoricalFilter ==
  (Evaluated /\ aggregations.ready /\ PrimarySlice # <<>>) =>
    aggregations.totals.area = IF FilterActive THEN SliceArea ELSE MunicipalityArea

\* C17 (amended): with neither a purpose nor a program filter and a non-empty
\* municipality roll-up the KPI area is the sum of area over the municipality
\* roll-up (a product filter does not change this); otherwise it is the sum
\* of area over the primary slice, and it is undefined when that slice is
\* empty.
C17_AreaSource ==
  (Evaluated /\ aggregations.ready) =>
    IF /\ F.programa = nullStr /\ F.finalidade = nullStr
       /\ filteredData.municipioTotals # <<>>
    THEN Has(aggregations.totals, "area") /\ aggregations.totals.area = MunicipalityArea
    ELSE IF PrimarySlice # <<>>
         THEN Has(aggregations.totals, "area") /\ aggregations.totals.area = SliceArea
         ELSE ~Has(aggregations.totals, "area")

\* a product filter narrows the primary slice and the area still comes from
\* the municipality roll-up
C17_Witness ==
  /\ Evaluated /\ aggregations.ready
  /\ F.produto # nullStr /\ F.programa = nullStr /\ F.finalidade = nullStr
  /\ PrimarySlice # <<>>
  /\ Len(PrimarySlice) < Len(filteredFinalidade(data, Without(F, {"produto"})))
  /\ aggregations.totals.area = MunicipalityArea
  /\ MunicipalityArea # SliceArea

-----------------------------------------------------------------------------
(* Re-evaluation: the hooks run again on the same inputs, the clock moves *)

\* the calendar year changes after an evaluation
NewYear ==
  /\ filteredData.ready
  /\ now + 1 \in CalendarYears
  /\ now' = now + 1
  /\ UNCHANGED <<data, filters, interactiveFilters, filteredData, aggregations, trail,
                 pc, pending, loading, error>>

\* another render with the same data and the same filter values: App builds a
\* new combinedFilters object on every render, so both memoised hooks run
\* again
Reevaluate ==
  /\ filteredData.ready
  /\ Rendered(data, filters, interactiveFilters)
  /\ UNCHANGED <<data, filters, interactiveFilters, trail, pc, pending, loading,
                 error, now>>

\* FilterStates with and without an upper year bound
UpperBoundStates ==
  { [fl EXCEPT !.anoMax = y] : fl \in CategoryFilterStates, y \in {nullNum, 2021} }

InitClock ==
  /\ data \in {DataYearTotals, DataRegular, DataIrregular}
  /\ filters \in UpperBoundStates
  /\ interactiveFilters = NoInteractiveFilters
  /\ now = 2021
  /\ pending = NullData
  /\ loading = FALSE
  /\ error = nullStr
  /\ pc = "done"
  /\ filteredData = NullView
  /\ aggregations = NullView
  /\ trail = NoTrail

NextClock == Evaluate \/ NewYear \/ Reevaluate

SpecClock == InitClock /\ [][NextClock]_vars

\* C18 (as stated): an evaluation of useFilteredData and useAggregations on
\* the inputs of an earlier evaluation produces the outputs of that earlier
\* evaluation, whenever it happens.
C18_Deterministic ==
  [][ (/\ filteredData.ready /\ filteredData'.ready
       /\ data' = data /\ filters' = filters /\ interactiveFilters' = interactiveFilters)
      => (filteredData' = filteredData /\ aggregations' = aggregations) ]_vars

\* C19: in every state with a loaded dataset, whatever filter changes led to
\* it, the filtered collections, roll-ups, flow graph and leaderboard are the
\* engine's result for the current combined FilterState, and the KPI totals
\* are computed from exactly that result and that FilterState.
C19_ViewsOfCurrentFilterState ==
  ~IsNull(data) =>
    /\ filteredData = useFilteredData(data, F)
    /\ aggregations = useAggregations(filteredData, F, now)

\* dropdown changes and chart clicks have both happened and narrow the views
C19_Witness ==
  /\ UiShown
  /\ filters.finalidade # nullStr
  /\ filters.granularidade = "mensal"
  /\ filters.anoMax = 2020
  /\ interactiveFilters.programa # nullStr
  /\ interactiveFilters.municipio # nullStr
  /\ filteredData.byFinalidade # <<>>

-----------------------------------------------------------------------------
(* The engine on datasets that lack a collection *)

CollectionNames ==
  {"byFinalidade", "byPrograma", "byProduto", "byMunicipio", "byAno", "byMes",
   "bump", "sankey", "byGenero"}

\* the object without the named properties
Lacking(d, names) == [k \in (DOMAIN d) \ names |-> d[k]]

\* a loaded dataset with one collection missing, with all of them missing,
\* or with a flow graph or gender object that lacks a part
PartialDatasets ==
  { Lacking(DataRegular, {c}) : c \in CollectionNames }
  \cup { Lacking(DataRegular, CollectionNames) }
  \cup { [DataRegular EXCEPT !.sankey = Lacking(DataRegular.sankey, {"nodes"})],
         [DataRegular EXCEPT !.sankey = Lacking(DataRegular.sankey, {"links"})],
         [DataRegular EXCEPT !.byGenero = Lacking(DataRegular.byGenero, {"byAnoMes"})] }

\* every combination of active category filters, with and without a year
\* bound, for both series
PartialFilterStates ==
  [anoMin : {nullNum, 2020}, anoMax : {nullNum}, mesMin : {nullNum}, mesMax : {nullNum},
   finalidade : {nullStr, "F1"}, programa : {nullStr, "P1"}, produto : {nullStr, "C1"},
   municipio : {nullStr, "M1"}, granularidade : {"anual", "mensal"}]

InitPartial ==
  /\ data \in PartialDatasets
  /\ filters \in PartialFilterStates
  /\ interactiveFilters = NoInteractiveFilters
  /\ now = 2021
  /\ pending = NullData
  /\ loading = FALSE
  /\ error = nullStr
  /\ pc = "done"
  /\ filteredData = NullView
  /\ aggregations = NullView
  /\ trail = NoTrail

NextPartial == Evaluate

SpecPartial == InitPartial /\ [][NextPartial]_vars

\* the hooks have run, to completion or to a TypeError
Ran == filteredData # NullView

\* the view exists and is the empty list
EmptyView(name) == Has(filteredData, name) /\ filteredData[name] = <<>>

\* the roll-up built from each record collection
RollupOf ==
  [byFinalidade |-> "finalidadeTotals", byPrograma |-> "programaTotals",
   byProduto |-> "produtoTotals", byMunicipio |-> "municipioTotals"]

\* C20 (as stated): on a loaded dataset that lacks a collection or structure,
\* under any FilterState, both hooks complete without raising and the views
\* derived from what is missing are empty collections.
C20_TotalOnMissingCollections ==
  Ran =>
    /\ ~Has(filteredData, "raised")
    /\ filteredData.ready /\ aggregations.ready
    /\ \A c \in DOMAIN RollupOf :
         ~Has(data, c) => EmptyView(c) /\ EmptyView(RollupOf[c])
    /\ \A c \in {"byAno", "byMes", "bump"} : ~Has(data, c) => EmptyView(c)
    /\ (~Has(data, "sankey") \/ ~Has(data.sankey, "nodes") \/ ~Has(data.sankey, "links")) =>
         /\ Has(filteredData, "sankey")
         /\ Has(filteredData.sankey, "nodes") /\ Has(filteredData.sankey, "links")
         /\ (~Has(data, "sankey") =>
               filteredData.sankey.nodes = <<>> /\ filteredData.sankey.links = <<>>)

-----------------------------------------------------------------------------
-----------------------------------------------------------------------------
\* the label of the node with the given id in the input graph
LabelOf(id) == NodeById(data.sankey.nodes, id).label

IsNodeId(id) == HasNode(data.sankey.nodes, id)

ProgramToPurpose(l) ==
  getNodeType(l.source) = "programa" /\ getNodeType(l.target) = "finalidade"

PurposeToProduct(l) ==
  getNodeType(l.source) = "finalidade" /\ getNodeType(l.target) = "produto"

\* the purposes fed by the selected program: targets of the input graph's
\* program-to-purpose edges whose source node is labelled with the program
AllowedPurposes ==
  { data.sankey.links[i].target : i \in
      { j \in 1..Len(data.sankey.links) :
          /\ ProgramToPurpose(data.sankey.links[j])
          /\ IsNodeId(data.sankey.links[j].source)
          /\ LabelOf(data.sankey.links[j].source) = F.programa } }

\* C22: under an active program filter P with at least one surviving edge,
\* every returned program-to-purpose edge has a source node labelled P and
\* every returned purpose-to-product edge has a source purpose among the
\* allowed purposes (targets of the input graph's program-to-purpose edges
\* whose source is labelled P).
C22_ProgramRule ==
  (Evaluated /\ F.programa # nullStr /\ Survivors # <<>>) =>
    \A i \in 1..Len(filteredData.sankey.links) :
      LET l == filteredData.sankey.links[i]
      IN  /\ ProgramToPurpose(l) => LabelOf(l.source) = F.programa
          /\ PurposeToProduct(l) => l.source \in AllowedPurposes

\* a purpose-to-product edge is returned while another positive one is
\* dropped because its purpose is fed by a different program only
C22_Witness ==
  /\ Evaluated
  /\ F.programa # nullStr /\ F.finalidade = nullStr /\ F.produto = nullStr
  /\ \E i \in 1..Len(filteredData.sankey.links) :
       PurposeToProduct(filteredData.sankey.links[i])
  /\ \E i \in 1..Len(filteredData.sankey.links) :
       ProgramToPurpose(filteredData.sankey.links[i])
  /\ \E j \in 1..Len(data.sankey.links) :
       LET l == data.sankey.links[j]
       IN  /\ PurposeToProduct(l) /\ l.value > 0
           /\ l.source \notin AllowedPurposes
           /\ \E k \in 1..Len(data.sankey.links) :
                /\ data.sankey.links[k].target = l.source
                /\ data.sankey.links[k].value > 0
           /\ \A i \in 1..Len(filteredData.sankey.links) :
                filteredData.sankey.links[i] # l

-----------------------------------------------------------------------------
Positive(l) == l.value > 0

\* an endpoint of the edge lies on the purpose layer and carries the label
PurposeEndpointLabelled(l, label) ==
  \/ getNodeType(l.source) = "finalidade" /\ IsNodeId(l.source)
       /\ LabelOf(l.source) = label
  \/ getNodeType(l.target) = "finalidade" /\ IsNodeId(l.target)
       /\ LabelOf(l.target) = label

TargetLabelled(l, label) == IsNodeId(l.target) /\ LabelOf(l.target) = label

\* the returned edges are the given ones; when there is none the input graph
\* is returned
Returns(expected) ==
  IF expected # <<>> THEN filteredData.sankey.links = expected
  ELSE filteredData.sankey = data.sankey

\* C23: on a flow graph whose edges reference its own nodes, with only a
\* purpose filter the surviving edges are exactly the positive input edges
\* whose purpose-layer endpoint carries the selected label; with only a
\* product filter they are exactly the positive program-to-purpose edges and
\* the positive purpose-to-product edges whose target carries the selected
\* label.  On the chain progA -10-> purpB -5-> prodC, the product filter
\* alone and the program filter alone both return the two edges.
C23_LabelRulesOnOwnLayer ==
  (Evaluated /\ Integrity(data.sankey)) =>
    /\ (F.finalidade # nullStr /\ F.programa = nullStr /\ F.produto = nullStr) =>
         LET Expected(l) == Positive(l) /\ PurposeEndpointLabelled(l, F.finalidade)
         IN  Returns(SelectSeq(data.sankey.links, Expected))
    /\ (F.produto # nullStr /\ F.programa = nullStr /\ F.finalidade = nullStr) =>
         LET Expected(l) == /\ Positive(l)
                            /\ \/ ProgramToPurpose(l)
                               \/ PurposeToProduct(l) /\ TargetLabelled(l, F.produto)
         IN  Returns(SelectSeq(data.sankey.links, Expected))
    /\ (/\ data = DataChain
        /\ \/ F.produto = "C1" /\ F.programa = nullStr /\ F.finalidade = nullStr
           \/ F.programa = "P1" /\ F.produto = nullStr /\ F.finalidade = nullStr) =>
         filteredData.sankey.links = data.sankey.links

\* the product filter alone keeps a program-to-purpose edge and drops a
\* positive purpose-to-product edge to another product
C23_Witness ==
  /\ Evaluated /\ Integrity(data.sankey)
  /\ F.produto # nullStr /\ F.programa = nullStr /\ F.finalidade = nullStr
  /\ \E i \in 1..Len(filteredData.sankey.links) :
       ProgramToPurpose(filteredData.sankey.links[i])
  /\ \E i \in 1..Len(filteredData.sankey.links) :
       PurposeToProduct(filteredData.sankey.links[i])
  /\ \E j \in 1..Len(data.sankey.links) :
       /\ PurposeToProduct(data.sankey.links[j]) /\ Positive(data.sankey.links[j])
       /\ \A i \in 1..Len(filteredData.sankey.links) :
            filteredData.sankey.links[i] # data.sankey.links[j]

-----------------------------------------------------------------------------
\* the ids that are the source or the target of an edge of the graph
Endpoints(g) ==
  {g.links[i].source : i \in 1..Len(g.links)} \cup
  {g.links[i].target : i \in 1..Len(g.links)}

\* C24: when a purpose/program/product filter is active and at least one edge
\* survives, the returned nodes are exactly the input nodes that are the
\* source or the target of a returned edge, in input order: no orphan is
\* returned and no endpoint of a returned edge is missing.
C24_NodesAreTouchedNodes ==
  (Evaluated /\ FilterActive /\ Survivors # <<>>) =>
    LET Touched(n) == n.id \in Endpoints(filteredData.sankey)
    IN  /\ filteredData.sankey.nodes = SelectSeq(data.sankey.nodes, Touched)
        /\ Endpoints(filteredData.sankey) \subseteq NodeIds(filteredData.sankey)

\* orphans were dropped: a node of each layer is returned and a node of each
\* layer is not
C24_Witness ==
  /\ Evaluated /\ FilterActive /\ Survivors # <<>>
  /\ \A t \in {"programa", "finalidade", "produto"} :
       /\ \E i \in 1..Len(filteredData.sankey.nodes) :
            getNodeType(filteredData.sankey.nodes[i].id) = t
       /\ \E j \in 1..Len(data.sankey.nodes) :
            /\ getNodeType(data.sankey.nodes[j].id) = t
            /\ data.sankey.nodes[j].id \notin NodeIds(filteredData.sankey)

-----------------------------------------------------------------------------
CategoricalKeys == {"finalidade", "programa", "produto", "municipio"}

\* the chart-click selection when there is one, the dropdown selection
\* otherwise
Override(key) ==
  IF interactiveFilters[key] # nullStr THEN interactiveFilters[key] ELSE filters[key]

\* the FilterState the rule prescribes for the current dropdown and
\* chart-click states
PrescribedFilters ==
  [anoMin |-> filters.anoMin, anoMax |-> filters.anoMax,
   mesMin |-> filters.mesMin, mesMax |-> filters.mesMax,
   granularidade |-> filters.granularidade,
   finalidade |-> Override("finalidade"), programa |-> Override("programa"),
   produto |-> Override("produto"), municipio |-> Override("municipio"),
   ano |-> interactiveFilters.ano]

\* a step that takes the chart-click selection of the key away
Deselects(key) ==
  interactiveFilters[key] # nullOf(key) /\ interactiveFilters'[key] = nullOf(key)

\* C25: in every state the FilterState passed to the engine carries, for
\* purpose, program, product and municipality, the chart-click selection
\* when it is non-null and the dropdown selection otherwise, and its
\* single-year override is the chart-click year; a step that removes or
\* clears a chart-click selection leaves the dropdown state as it was and
\* makes the combined value the dropdown selection (no year override).
C25_CombinedFilters ==
  /\ [](/\ F = PrescribedFilters
        /\ ~IsNull(data) => filteredData = useFilteredData(data, PrescribedFilters))
  /\ [][\A key \in InteractiveKeys :
          Deselects(key) =>
            /\ filters' = filters
            /\ combinedFilters(filters', interactiveFilters')[key] =
                 IF key = "ano" THEN nullNum ELSE filters[key]]_vars

\* a chart-click purpose was removed over a dropdown purpose: the engine is
\* back on the dropdown selection
C25_Witness ==
  /\ filteredData.ready
  /\ trail.phase = "cleared" /\ trail.key = "finalidade"
  /\ filters.finalidade # nullStr
  /\ interactiveFilters.finalidade = nullStr
  /\ interactiveFilters.programa # nullStr
  /\ F.finalidade = filters.finalidade

-----------------------------------------------------------------------------
\* C26: the KPI value and contractCount equal the sums of valor and contratos
\* over the rows of the by-purpose roll-up (finalidadeTotals) computed from
\* the same Dataset and FilterState.
C26_KpiMatchesPurposeRollup ==
  (Evaluated /\ aggregations.ready) =>
    /\ Has(aggregations.totals, "valor")
    /\ aggregations.totals.valor = SumField(filteredData.finalidadeTotals, "valor")
    /\ Has(aggregations.totals, "contratos")
    /\ aggregations.totals.contratos = SumField(filteredData.finalidadeTotals, "contratos")

-----------------------------------------------------------------------------
\* C27: whenever the single-year override is set, every record of the
\* filtered primary slice that carries a year carries the override's year, at
\* most one of currentYear and previousYear has a total in the slice and
\* yoyChange is null -- whatever anoMin and anoMax are, set or unset.
C27_NoYoyUnderYearOverride ==
  (Evaluated /\ aggregations.ready /\ F.ano # nullNum) =>
    /\ \A i \in 1..Len(PrimarySlice) :
         Has(PrimarySlice[i], "ano") => PrimarySlice[i].ano = F.ano
    /\ YearTotal(CurrentYear) = 0 \/ YearTotal(CurrentYear - 1) = 0
    /\ aggregations.totals.yoyChange.null

\* the override selects the current year, which has a total, and the dataset
\* holds records of the previous year that the override removed
C27_Witness ==
  /\ Evaluated /\ aggregations.ready
  /\ F.ano # nullNum /\ F.ano = CurrentYear
  /\ ~FilterActive /\ F.mesMin = nullNum /\ F.mesMax = nullNum
  /\ YearTotal(CurrentYear) > 0
  /\ \E i \in 1..Len(data.byFinalidade) :
       /\ data.byFinalidade[i].ano = CurrentYear - 1
       /\ Num(data.byFinalidade[i], "valor") > 0
  /\ aggregations.totals.yoyChange.null

-----------------------------------------------------------------------------
\* C28: under an active program filter P with at least one surviving edge,
\* every purpose node that is the source of a returned purpose-to-product
\* edge is the target of a returned program-to-purpose edge whose source is
\* labelled P -- also when the input has program-to-purpose edges of zero or
\* negative value.
C28_ConnectedThroughProgram ==
  (Evaluated /\ F.programa # nullStr /\ Survivors # <<>>) =>
    \A i \in 1..Len(filteredData.sankey.links) :
      LET l == filteredData.sankey.links[i]
      IN  PurposeToProduct(l) =>
            \E j \in 1..Len(filteredData.sankey.links) :
              LET m == filteredData.sankey.links[j]
              IN  /\ ProgramToPurpose(m)
                  /\ m.target = l.source
                  /\ LabelOf(m.source) = F.programa

-----------------------------------------------------------------------------
\* the current FilterState without its municipality selection, and what the
\* hooks return for it
Unselected == [F EXCEPT !.municipio = nullStr]

Baseline == useFilteredData(data, Unselected)

BaselineTotals == useAggregations(Baseline, Unselected, now).totals

\* both records lack the field or both carry it with the same value
SameField(a, b, f) == (Has(a, f) <=> Has(b, f)) /\ (Has(a, f) => a[f] = b[f])

\* the municipality selection leaves the three collections and the four KPI
\* fields as they are without it
MunicipalityFrame ==
  /\ \A c \in {"byFinalidade", "byPrograma", "byProduto"} :
       filteredData[c] = Baseline[c]
  /\ \A k \in {"valor", "contratos", "valorMedio", "yoyChange"} :
       SameField(aggregations.totals, BaselineTotals, k)

\* the municipality records of the period that match the selection
MatchingMunicipalities ==
  LET Match(r) == FieldIs(r, "name", F.municipio) \/ FieldIs(r, "municipio", F.municipio)
  IN  SelectSeq(KeptByWindow(data.byMunicipio, effectiveAnoMin(F), effectiveAnoMax(F),
                             F.mesMin, F.mesMax), Match)

\* C29 (as stated): with no purpose, program or product filter, a
\* municipality selection leaves the filtered by-purpose, by-program and
\* by-product collections and the KPI value, contractCount,
\* averageValuePerContract and yoyChange as they are without it, and the KPI
\* area is the summed area of the municipality records matching the
\* selection.
C29_MunicipalityChangesAreaOnly ==
  (Evaluated /\ aggregations.ready /\ ~FilterActive /\ F.municipio # nullStr) =>
    /\ MunicipalityFrame
    /\ Has(aggregations.totals, "area")
    /\ aggregations.totals.area = SumField(MatchingMunicipalities, "area")

\* C29 (amended): with no purpose, program or product filter, a municipality
\* selection leaves the filtered by-purpose, by-program and by-product
\* collections and the KPI value, contractCount, averageValuePerContract and
\* yoyChange as they are without it; the KPI area is the summed area of the
\* municipality records of the period matching the selection when there is
\* one, and otherwise the summed area of the by-purpose slice (undefined
\* when that slice is empty).
C29_MunicipalityChangesAreaWhenMatched ==
  (Evaluated /\ aggregations.ready /\ ~FilterActive /\ F.municipio # nullStr) =>
    /\ MunicipalityFrame
    /\ IF MatchingMunicipalities # <<>>
       THEN /\ Has(aggregations.totals, "area")
            /\ aggregations.totals.area = SumField(MatchingMunicipalities, "area")
       ELSE IF PrimarySlice # <<>>
            THEN Has(aggregations.totals, "area") /\ aggregations.totals.area = SliceArea
            ELSE ~Has(aggregations.totals, "area")

\* the selection matches some but not all municipality records of the
\* period, and the area differs from the one without the selection
C29_Witness ==
  /\ Evaluated /\ aggregations.ready /\ ~FilterActive /\ F.municipio # nullStr
  /\ MatchingMunicipalities # <<>>
  /\ Len(MatchingMunicipalities) < Len(Baseline.byMunicipio)
  /\ PrimarySlice # <<>>
  /\ aggregations.totals.area # BaselineTotals.area
  /\ aggregations.totals.valor = BaselineTotals.valor

-----------------------------------------------------------------------------
\* loadData has not returned yet
Loading == pc = "fetchAggregated" \/ pc = "fetchForecasts"

\* C30: every run of loadData ends.  Until it ends, loading is true and data
\* and error are null; once it has ended, loading is false and exactly one
\* of data and error is non-null.  error is set by a step if and only if the step is the failure
\* of the fetch or the parse of the aggregated file; a forecasts fetch that
\* fails (rejected, non-OK or unparsable) sets no error and yields data whose
\* forecasts is null.
C30_LoadStateMachine ==
  /\ <>(~Loading)
  /\ [](IF Loading
        THEN loading /\ IsNull(data) /\ error = nullStr
        ELSE ~loading /\ (IsNull(data) <=> error # nullStr))
  /\ [][/\ (error' # error) <=> (\E msg \in LoadErrors : AggregatedFails(msg))
        /\ \A outcome \in ForecastOutcomes :
             ForecastsSettle(outcome) =>
               /\ error' = nullStr
               /\ ~IsNull(data')
               /\ outcome # "ok" => IsNull(data'.forecasts)]_vars

\* the aggregated file loaded and the forecasts fetch failed: data without
\* forecasts, no error
C30_Witness ==
  /\ ~Loading /\ ~loading
  /\ error = nullStr
  /\ ~IsNull(data) /\ IsNull(data.forecasts)
  /\ filteredData.ready

====
